---- MODULE Spec2Model ----
(***************************************************************************)
(* A model of the recommendation engine of the e-commerce recommender      *)
(* backend (apps/recommendations): the Recommendation store and its        *)
(* feedback counters, the hybrid combiner and the trending batch job.      *)
(*                                                                         *)
(* Database rows are records; a request handler or Celery task is a        *)
(* process whose steps are its database statements, so that any two        *)
(* handlers interleave between statements as they do under a multi-worker  *)
(* deployment.  Opaque values (explanation text, the context bag) are      *)
(* natural-number tags.  Rates and scores that the code holds as floats    *)
(* are exact rationals <<numerator, denominator>>.                         *)
(***************************************************************************)
EXTENDS Integers, Sequences, FiniteSets, TLC

\* ------------------------------------------------------------------ bounds
NumProcs    == 2      \* concurrent workers
MaxUpserts  == 3      \* get_recommendations calls started in one behaviour
MaxSeqUpserts == 2    \* the same, for a single worker
MaxFeedback == 2      \* feedback calls started in one behaviour
MaxSeqFeedback == 4   \* the same, for a single worker
NumInputs   == 2      \* distinct candidate entries an engine may return

\* --------------------------------------------------------------- universe
Procs    == 1..NumProcs
Stores   == {"A", "B"}

\* users table (apps/users/models.py): primary key -> (store, user_id)
NoUser   == 0
UserPks  == {1, 2, 3}
UserStore(pk)  == IF pk = 2 THEN "B" ELSE "A"
\* User.user_id, the store's own identifier of the user
UserExtId(pk)  == CASE pk = 1 -> "1" [] pk = 2 -> "2" [] pk = 3 -> "3"

\* products table: primary key -> store
ProductPks == {1, 2, 3}
ProductStore(pk) == IF pk = 3 THEN "B" ELSE "A"
ProductsOf(store) == {pk \in ProductPks : ProductStore(pk) = store}
\* the row a product id of a request names
ToProductPk(product_id) ==
    CASE product_id = "p1" -> 1 [] product_id = "p2" -> 2 [] product_id = "p3" -> 3

\* the user_id argument of a request: None, or the store's own user id string
NoneId   == "None"

\* Django prepares the value of the lookup user_id=<str> with int(): the
\* string is read as the primary key of the users table.
BadPk    == -1
ToPk(ext) ==
    CASE ext = NoneId -> NoUser
      [] ext = "1"    -> 1
      [] ext = "2"    -> 2
      [] ext = "3"    -> 3
      [] OTHER        -> BadPk

HoursToExpiry == 24

VARIABLES
    recs,       \* table recommendations: sequence of rows, id = index
    profiles,   \* table user_recommendation_profiles: user pk -> row
    now,        \* clock (hours)
    pc,         \* per worker: position in its handler
    op,         \* per worker: the call it runs
    snap,       \* per worker: the model instance it holds in memory
    calls,      \* number of service calls started, by kind
    prof,       \* per worker: the profile instance it holds in memory
    hist        \* history: per recommendation id, the feedback calls that
                \* reached it and the ranking fields last written by an upsert

VARIABLES
    interactions,   \* table interactions: set of rows
    tnow,           \* clock of the batch jobs, in half hours
    trending,       \* table trending_products: set of rows
    task,           \* the running calculate_trending_products: store, window
    written,        \* history: the products the last window step wrote, by rank
    rewritten,      \* history: keys overwritten with a different score
    budget          \* arrivals, clock advances and task starts so far

VARIABLES
    hin,            \* the three generators' results for one request
    hout,           \* what the hybrid engine returned for it
    bprofiles,      \* table user_behavior_profiles: user pk -> row
    btasks          \* the update_user_behavior_profile tasks enqueued so far

VARIABLES
    prices,         \* products table: product pk -> price
    similar,        \* table similar_products: set of rows
    eout,           \* the last generator call and what it returned
    listed          \* the last read of the recommendation store and its result

storeVars == <<recs, profiles, now, pc, op, snap, prof, calls, hist>>
trendVars == <<interactions, tnow, trending, task, written, rewritten, budget>>
hybridVars == <<hin, hout>>
behaviorVars == <<bprofiles, btasks>>
queryVars == <<prices, similar, eout, listed>>
vars == <<storeVars, trendVars, hybridVars, behaviorVars, queryVars>>

\* ------------------------------------------------------------- rationals
Rat(n, d)   == <<n, d>>
RatEq(a, b) == a[1] * b[2] = b[1] * a[2]
ZeroRat     == Rat(0, 1)

\* ---------------------------------------------------- Recommendation row
NoRow ==
    [id |-> 0, store |-> "", user |-> NoUser, session_id |-> "", product |-> 0,
     algorithm |-> "", score |-> 0, rank |-> 0, explanation |-> 0, context |-> 0,
     created_at |-> 0, expires_at |-> 0,
     shown_count |-> 0, click_count |-> 0, purchase_count |-> 0]

\* Recommendation.click_through_rate
click_through_rate_unguarded(r) == Rat(r.click_count * 100, r.shown_count)

click_through_rate(r) ==
    IF r.shown_count = 0 THEN ZeroRat
    ELSE Rat(r.click_count * 100, r.shown_count)

\* Recommendation.conversion_rate
conversion_rate(r) ==
    IF r.shown_count = 0 THEN ZeroRat
    ELSE Rat(r.purchase_count * 100, r.shown_count)

\* the fields an upsert writes
Ranking(r) ==
    [score |-> r.score, rank |-> r.rank, explanation |-> r.explanation,
     context |-> r.context, expires_at |-> r.expires_at]

\* the unique_together key of Recommendation
KeyOf(r) == <<r.store, r.user, r.session_id, r.product, r.algorithm>>

\* Recommendation.objects.filter(store=, user_id=, session_id=, product=, algorithm=)
Matching(key) == {i \in 1..Len(recs) : KeyOf(recs[i]) = key}

\* The database's UNIQUE (store, user, session_id, product, algorithm):
\* two rows conflict only when every key column is equal and none is NULL,
\* and user is the one nullable column of the key.
UniqueConflict(key) == key[2] # NoUser /\ Matching(key) # {}

\* -------------------------------------------------- UserRecommendationProfile
NoProfile ==
    [exists |-> FALSE, store |-> "", shown |-> 0, clicked |-> 0, purchased |-> 0,
     overall_ctr |-> ZeroRat, overall_conversion_rate |-> ZeroRat]

RECURSIVE SumOver(_, _, _)
\* user.recommendations.aggregate(Sum(field)) over the first n rows
SumOver(n, user, field) ==
    IF n = 0 THEN 0
    ELSE SumOver(n - 1, user, field)
         + (IF recs[n].user = user THEN recs[n][field] ELSE 0)

\* ------------------------------------------------------------------ calls
Idle == [kind |-> "none", store |-> "", user_id |-> NoneId, session_id |-> "",
         algorithm |-> "", context |-> 0, todo |-> <<>>, rec_id |-> 0]

\* The result list of an engine: distinct products of the service's store,
\* rank = position in the list (idx + 1 in every engine), score and
\* explanation as computed for this request (tag v).
ProductLists(products) ==
    {<<a>> : a \in products}
        \cup {<<x[1], x[2]>> : x \in {y \in products \X products : y[1] # y[2]}}
EngineResult(plist, v) ==
    [i \in 1..Len(plist) |->
        [product |-> plist[i], score |-> v, rank |-> i, explanation |-> v]]

StoreInit ==
    /\ recs = <<>>
    /\ profiles = [u \in UserPks |-> NoProfile]
    /\ now = 0
    /\ pc = [p \in Procs |-> "idle"]
    /\ op = [p \in Procs |-> Idle]
    /\ snap = [p \in Procs |-> NoRow]
    /\ prof = [p \in Procs |-> NoProfile]
    /\ calls = [up |-> 0, fb |-> 0, jumps |-> 0, cleanups |-> 0]
    /\ hist = <<>>

\* the handler returns to its caller: its locals are gone
Returns(p) ==
    /\ pc' = [pc EXCEPT ![p] = "idle"]
    /\ op' = [op EXCEPT ![p] = Idle]
    /\ snap' = [snap EXCEPT ![p] = NoRow]
    /\ prof' = [prof EXCEPT ![p] = NoProfile]

\* the handler raises: the exception reaches its caller
Raises(p) ==
    /\ pc' = [pc EXCEPT ![p] = "failed"]
    /\ UNCHANGED <<op, snap, prof>>

\* ---------------------------------------- RecommendationService.get_recommendations
\* lines 298-320: the engine is chosen and run; its result is the request's input
StartGetRecommendations(p, store, user_id, session_id, plist, v) ==
    /\ pc[p] = "idle"
    /\ calls' = [calls EXCEPT !.up = @ + 1]
    /\ op' = [op EXCEPT ![p] =
                [kind |-> "get_recommendations", store |-> store, user_id |-> user_id,
                 session_id |-> session_id, algorithm |-> "hybrid", context |-> v,
                 todo |-> EngineResult(plist, v), rec_id |-> 0]]
    /\ pc' = [pc EXCEPT ![p] = "goc_get"]
    /\ now' = now + 1      \* time passes between two requests
    /\ UNCHANGED <<recs, profiles, snap, prof, hist>>
    /\ UNCHANGED <<trendVars, hybridVars, behaviorVars, queryVars>>

\* the lookup key of the get_or_create of lines 325-330
CallKey(p) ==
    <<op[p].store, ToPk(op[p].user_id), op[p].session_id,
      Head(op[p].todo).product, op[p].algorithm>>

\* the loop of line 324 moves to its next entry, or the call returns
NextEntry(p) ==
    IF Len(op[p].todo) > 1
    THEN /\ op' = [op EXCEPT ![p].todo = Tail(@)]
         /\ pc' = [pc EXCEPT ![p] = "goc_get"]
         /\ snap' = [snap EXCEPT ![p] = NoRow]
         /\ UNCHANGED prof
    ELSE Returns(p)

\* get_or_create, first statement: self.get(**kwargs)
GocGet(p) ==
    /\ pc[p] = "goc_get"
    /\ IF ToPk(op[p].user_id) = BadPk
       THEN Raises(p)      \* ValueError: Field 'id' expected a number
       ELSE LET m == Matching(CallKey(p)) IN
            CASE Cardinality(m) = 0 ->
                    /\ pc' = [pc EXCEPT ![p] = "goc_create"]
                    /\ UNCHANGED <<snap, op, prof>>
              [] Cardinality(m) = 1 ->
                    /\ snap' = [snap EXCEPT ![p] = recs[CHOOSE i \in m : TRUE]]
                    /\ pc' = [pc EXCEPT ![p] = "upd_save"]
                    /\ UNCHANGED <<op, prof>>
              [] OTHER -> Raises(p)      \* MultipleObjectsReturned
    /\ UNCHANGED <<recs, profiles, now, calls, hist>>
    /\ UNCHANGED <<trendVars, hybridVars, behaviorVars, queryVars>>

\* the row inserted by get_or_create's create(**params): the key, the
\* defaults of lines 331-337 and the model's field defaults (counters 0)
NewRow(p) ==
    LET e == Head(op[p].todo) IN
    [id |-> Len(recs) + 1, store |-> op[p].store, user |-> ToPk(op[p].user_id),
     session_id |-> op[p].session_id, product |-> e.product,
     algorithm |-> op[p].algorithm, score |-> e.score, rank |-> e.rank,
     explanation |-> e.explanation, context |-> op[p].context,
     created_at |-> now, expires_at |-> now + HoursToExpiry,
     shown_count |-> 0, click_count |-> 0, purchase_count |-> 0]

\* get_or_create, second statement: create(**params) in its own savepoint
GocCreate(p) ==
    /\ pc[p] = "goc_create"
    /\ LET key == CallKey(p) IN
       IF key[2] # NoUser /\ key[2] \notin UserPks
       THEN \* foreign key violation: IntegrityError, and the second get finds nothing
            /\ Raises(p)
            /\ UNCHANGED <<recs, hist>>
       ELSE IF UniqueConflict(key)
       THEN \* IntegrityError: another writer inserted the key first
            /\ pc' = [pc EXCEPT ![p] = "goc_reget"]
            /\ UNCHANGED <<recs, hist, op, snap, prof>>
       ELSE /\ recs' = Append(recs, NewRow(p))
            /\ hist' = Append(hist, [shown |-> 0, click |-> 0, purchase |-> 0,
                                     ranking |-> Ranking(NewRow(p))])
            /\ NextEntry(p)
    /\ UNCHANGED <<profiles, now, calls>>
    /\ UNCHANGED <<trendVars, hybridVars, behaviorVars, queryVars>>

\* get_or_create, after IntegrityError: self.get(**kwargs) again
GocReget(p) ==
    /\ pc[p] = "goc_reget"
    /\ LET m == Matching(CallKey(p)) IN
       IF Cardinality(m) = 1
       THEN /\ snap' = [snap EXCEPT ![p] = recs[CHOOSE i \in m : TRUE]]
            /\ pc' = [pc EXCEPT ![p] = "upd_save"]
            /\ UNCHANGED <<op, prof>>
       ELSE Raises(p)
    /\ UNCHANGED <<recs, profiles, now, calls, hist>>
    /\ UNCHANGED <<trendVars, hybridVars, behaviorVars, queryVars>>

\* lines 340-347: the instance read by get_or_create gets the new ranking
\* fields and save() writes every column of the instance, counters included
Updated_resetsCounters(p) ==
    LET e == Head(op[p].todo) IN
    [snap[p] EXCEPT !.score = e.score, !.rank = e.rank,
                    !.explanation = e.explanation, !.context = op[p].context,
                    !.expires_at = now + HoursToExpiry,
                    !.shown_count = 0, !.click_count = 0, !.purchase_count = 0]

Updated(p) ==
    LET e == Head(op[p].todo) IN
    [snap[p] EXCEPT !.score = e.score, !.rank = e.rank,
                    !.explanation = e.explanation, !.context = op[p].context,
                    !.expires_at = now + HoursToExpiry]

UpdSave(p) ==
    /\ pc[p] = "upd_save"
    /\ recs' = [recs EXCEPT ![snap[p].id] = Updated(p)]
    /\ hist' = [hist EXCEPT ![snap[p].id].ranking = Ranking(Updated(p))]
    /\ NextEntry(p)
    /\ UNCHANGED <<profiles, now, calls>>
    /\ UNCHANGED <<trendVars, hybridVars, behaviorVars, queryVars>>

\* ------------------------------------------------------------ feedback
\* RecommendationService.record_impression / record_click, and a purchase
\* attribution's call of Recommendation.increment_purchase
FeedbackKinds == {"record_impression", "record_click", "increment_purchase"}
CounterOf(kind) ==
    CASE kind = "record_impression"  -> "shown_count"
      [] kind = "record_click"       -> "click_count"
      [] kind = "increment_purchase" -> "purchase_count"
HistOf(kind) ==
    CASE kind = "record_impression"  -> "shown"
      [] kind = "record_click"       -> "click"
      [] kind = "increment_purchase" -> "purchase"

StartFeedback(p, store, kind, rec_id) ==
    /\ pc[p] = "idle"
    /\ calls' = [calls EXCEPT !.fb = @ + 1]
    /\ op' = [op EXCEPT ![p] = [Idle EXCEPT !.kind = kind, !.store = store,
                                            !.rec_id = rec_id]]
    /\ pc' = [pc EXCEPT ![p] = "fb_get"]
    /\ UNCHANGED <<recs, profiles, now, snap, prof, hist>>
    /\ UNCHANGED <<trendVars, hybridVars, behaviorVars, queryVars>>

\* Recommendation.objects.get(id=recommendation_id)
Visible(p) == {i \in 1..Len(recs) : i = op[p].rec_id /\ recs[i] # NoRow}

FbGet(p) ==
    /\ pc[p] = "fb_get"
    /\ IF Visible(p) # {}
       THEN /\ snap' = [snap EXCEPT ![p] = recs[op[p].rec_id]]
            /\ pc' = [pc EXCEPT ![p] = "fb_save"]
            /\ hist' = [hist EXCEPT ![op[p].rec_id][HistOf(op[p].kind)] = @ + 1]
            /\ UNCHANGED <<op, prof>>
       ELSE /\ Returns(p)      \* Recommendation.DoesNotExist: pass
            /\ UNCHANGED hist
    /\ UNCHANGED <<recs, profiles, now, calls>>
    /\ UNCHANGED <<trendVars, hybridVars, behaviorVars, queryVars>>

\* increment_shown / increment_click / increment_purchase:
\* self.<counter> += 1 on the instance, then save(update_fields=[<counter>]),
\* an UPDATE that sets the one column to the instance's value
Incremented_clickAlsoShown(p) ==
    IF op[p].kind = "record_click"
    THEN [recs[snap[p].id] EXCEPT !.click_count = snap[p].click_count + 1,
                                  !.shown_count = snap[p].shown_count + 1]
    ELSE [recs[snap[p].id] EXCEPT
            ![CounterOf(op[p].kind)] = snap[p][CounterOf(op[p].kind)] + 1]

Incremented(p) ==
    [recs[snap[p].id] EXCEPT
        ![CounterOf(op[p].kind)] = snap[p][CounterOf(op[p].kind)] + 1]

FbSave(p) ==
    /\ pc[p] = "fb_save"
    /\ recs' = [recs EXCEPT ![snap[p].id] = Incremented(p)]
    /\ IF op[p].kind # "increment_purchase" /\ snap[p].user # NoUser
       THEN /\ pc' = [pc EXCEPT ![p] = "profile_get"]
            /\ UNCHANGED <<op, snap, prof>>
       ELSE Returns(p)
    /\ UNCHANGED <<profiles, now, calls, hist>>
    /\ UNCHANGED <<trendVars, hybridVars, behaviorVars, queryVars>>

\* _update_user_profile, lines 403-420: get_or_create of the profile row of
\* (user.store, user), then the three aggregates over user.recommendations
ProfileGet(p) ==
    /\ pc[p] = "profile_get"
    /\ LET u == snap[p].user
           row == IF profiles[u].exists THEN profiles[u]
                  ELSE [NoProfile EXCEPT !.exists = TRUE, !.store = UserStore(u)]
       IN /\ profiles' = [profiles EXCEPT ![u] = row]
          /\ prof' = [prof EXCEPT ![p] =
                [row EXCEPT !.shown = SumOver(Len(recs), u, "shown_count"),
                            !.clicked = SumOver(Len(recs), u, "click_count"),
                            !.purchased = SumOver(Len(recs), u, "purchase_count")]]
    /\ pc' = [pc EXCEPT ![p] = "profile_save"]
    /\ UNCHANGED <<recs, now, op, snap, calls, hist>>
    /\ UNCHANGED <<trendVars, hybridVars, behaviorVars, queryVars>>

\* UserRecommendationProfile.update_performance_metrics: the rates are set
\* and the instance saved only when total_recommendations_shown > 0
ProfileSave(p) ==
    /\ pc[p] = "profile_save"
    /\ IF prof[p].shown > 0
       THEN profiles' = [profiles EXCEPT ![snap[p].user] =
                [prof[p] EXCEPT
                    !.overall_ctr = Rat(prof[p].clicked * 100, prof[p].shown),
                    !.overall_conversion_rate =
                        Rat(prof[p].purchased * 100, prof[p].shown)]]
       ELSE UNCHANGED profiles
    /\ Returns(p)
    /\ UNCHANGED <<recs, now, calls, hist>>
    /\ UNCHANGED <<trendVars, hybridVars, behaviorVars, queryVars>>

\* the caller of a failed request has its error response
Raise(p) ==
    /\ pc[p] = "failed"
    /\ Returns(p)
    /\ UNCHANGED <<recs, profiles, now, calls, hist>>
    /\ UNCHANGED <<trendVars, hybridVars, behaviorVars, queryVars>>

\* ========================================================== trending
\* calculate_trending_products (recommendations/tasks.py)
MaxEvents == 3      \* arrivals, clock advances and task starts in one behaviour

NoProduct == 0

\* the windows of lines 66-71, in half hours
Windows ==
    <<[name |-> "1h", delta |-> 2], [name |-> "6h", delta |-> 12],
      [name |-> "24h", delta |-> 48], [name |-> "7d", delta |-> 336]>>
\* steps by which the clock advances between two events
Jumps == {36, 200}

TrendingLimit == 50
PurchaseBoost == 5
VelocityBoost == 2

\* Interaction.INTERACTION_TYPES (interactions/models.py, lines 105-120)
INTERACTION_TYPES ==
    {"view", "click", "detail_view", "cart_add", "cart_remove", "wishlist_add",
     "wishlist_remove", "purchase", "review", "share", "like", "dislike",
     "search", "filter"}
\* weight_map of Interaction.save (lines 185-195), in tenths
weight_map ==
    [view |-> 1, click |-> 3, detail_view |-> 5, cart_add |-> 20,
     wishlist_add |-> 15, purchase |-> 50, review |-> 30, like |-> 10,
     dislike |-> 5]
DefaultInteractionWeight == 10
DefaultValue == 1

\* Interaction.save, line 196: the weight column is set from the type
SavedInteraction_keepsWeight(inst) ==
    [inst EXCEPT !.weight =
        IF inst.weight # DefaultInteractionWeight THEN inst.weight
        ELSE IF inst.interaction_type \in DOMAIN weight_map
             THEN weight_map[inst.interaction_type]
             ELSE DefaultInteractionWeight]

SavedInteraction(inst) ==
    [inst EXCEPT !.weight =
        IF inst.interaction_type \in DOMAIN weight_map
        THEN weight_map[inst.interaction_type]
        ELSE DefaultInteractionWeight]

\* What the event store may hold when the engine starts: interactions of
\* tenant A with its products 1 and 2 and one of tenant B; created 18 hours
\* ago or just now.
EventCatalogue ==
    {[id |-> 1, store |-> "A", user |-> NoUser, product |-> 1, interaction_type |-> "view",
      value |-> 1, weight |-> 1, created_at |-> -36],
     [id |-> 2, store |-> "A", user |-> NoUser, product |-> 1, interaction_type |-> "view",
      value |-> 1, weight |-> 1, created_at |-> 0],
     [id |-> 3, store |-> "A", user |-> NoUser, product |-> 2, interaction_type |-> "purchase",
      value |-> 1, weight |-> 50, created_at |-> 0],
     [id |-> 4, store |-> "A", user |-> NoUser, product |-> 2, interaction_type |-> "view",
      value |-> 1, weight |-> 1, created_at |-> -36],
     [id |-> 5, store |-> "B", user |-> NoUser, product |-> 3, interaction_type |-> "view",
      value |-> 1, weight |-> 1, created_at |-> 0]}
\* the interactions that arrive while the engine runs
Arrivals ==
    {[store |-> "A", product |-> 1, interaction_type |-> "purchase"],
     [store |-> "A", product |-> NoProduct, interaction_type |-> "search"],
     [store |-> "B", product |-> 3, interaction_type |-> "purchase"]}

NoTask == [store |-> "", w |-> 0]

TrendInit ==
    /\ interactions \in SUBSET EventCatalogue
    /\ tnow = 0
    /\ trending = {}
    /\ task = NoTask
    /\ written = <<>>
    /\ rewritten = {}
    /\ budget = 0

TrendIdle ==
    /\ interactions = {}
    /\ tnow = 0
    /\ trending = {}
    /\ task = NoTask
    /\ written = <<>>
    /\ rewritten = {}
    /\ budget = 0

\* The event store records an interaction of a store; its product, when it
\* has one, is a product of that store (InteractionCreateSerializer.create).
RecordInteraction(e) ==
    /\ budget < MaxEvents
    /\ e.product \in ProductsOf(e.store) \cup {NoProduct}
    /\ interactions' = interactions \cup
            {SavedInteraction(
                [id |-> Cardinality(EventCatalogue) + budget + 1, store |-> e.store,
                 user |-> NoUser, product |-> e.product,
                 interaction_type |-> e.interaction_type, value |-> DefaultValue,
                 weight |-> DefaultInteractionWeight, created_at |-> tnow])}
    /\ budget' = budget + 1
    /\ UNCHANGED <<tnow, trending, task, written, rewritten>>
    /\ UNCHANGED <<storeVars, hybridVars, behaviorVars, queryVars>>

\* time passes between two runs of the task
AdvanceClock(d) ==
    /\ task = NoTask
    /\ budget < MaxEvents
    /\ tnow' = tnow + d
    /\ budget' = budget + 1
    /\ UNCHANGED <<interactions, trending, task, written, rewritten>>
    /\ UNCHANGED <<storeVars, hybridVars, behaviorVars, queryVars>>

\* weights a caller may put on an instance before saving it, in tenths
SuppliedWeights == {0, 10, 99}

\* Interaction.objects.create(store=..., user=..., product=..., weight=...):
\* a new instance with the caller's values, then save()
CreateInteraction(store, user, product, type, weight) ==
    /\ budget < MaxEvents
    /\ user = NoUser \/ UserStore(user) = store
    /\ product \in ProductsOf(store) \cup {NoProduct}
    /\ interactions' = interactions \cup
            {SavedInteraction(
                [id |-> Cardinality(EventCatalogue) + budget + 1, store |-> store,
                 user |-> user, product |-> product, interaction_type |-> type,
                 value |-> DefaultValue, weight |-> weight, created_at |-> tnow])}
    /\ budget' = budget + 1
    /\ UNCHANGED <<tnow, trending, task, written, rewritten>>
    /\ UNCHANGED <<storeVars, hybridVars, behaviorVars, queryVars>>

\* a stored interaction is loaded, its type and weight are set by the caller,
\* and it is saved again
ResaveInteraction(row, type, weight) ==
    /\ budget < MaxEvents
    /\ row \in interactions
    /\ interactions' = (interactions \ {row}) \cup
            {SavedInteraction([row EXCEPT !.interaction_type = type,
                                          !.weight = weight])}
    /\ budget' = budget + 1
    /\ UNCHANGED <<tnow, trending, task, written, rewritten>>
    /\ UNCHANGED <<storeVars, hybridVars, behaviorVars, queryVars>>

NextInteractions ==
    \/ \E user \in {NoUser, 1}, type \in INTERACTION_TYPES,
          weight \in SuppliedWeights :
            CreateInteraction("A", user, 1, type, weight)
    \/ \E row \in interactions, type \in INTERACTION_TYPES,
          weight \in SuppliedWeights : ResaveInteraction(row, type, weight)

\* Interaction.objects.filter(store=store, created_at__gte=since_date,
\*                            product__isnull=False), lines 77-81
WindowRows(store, since) ==
    {e \in interactions :
        /\ e.store = store
        /\ e.created_at >= since
        /\ e.product # NoProduct}

\* .values('product').annotate(...), lines 81-85: one item per product
TrendingItem(store, product, delta) ==
    LET rows == {e \in WindowRows(store, tnow - delta) : e.product = product}
    IN [product |-> product,
        interaction_count |-> Cardinality(rows),
        purchase_count |-> Cardinality(
            {e \in rows : e.interaction_type = "purchase"}),
        velocity |-> Cardinality(
            {e \in rows : e.created_at >= tnow - (delta \div 2)})]

\* the sequences that list the items once each with the larger
\* interaction_count first; equal counts come in any order
RECURSIVE OrdersBy(_)
OrdersBy(items) ==
    IF items = {} THEN {<<>>}
    ELSE UNION {{<<x>> \o rest : rest \in OrdersBy(items \ {x})} :
                  x \in {y \in items : \A z \in items :
                            y.interaction_count >= z.interaction_count}}

\* .order_by('-interaction_count')[:50], line 85: the items in an order the
\* database may return them in (equal counts come in any order), cut at 50
TrendingData(store, delta) ==
    LET rows == WindowRows(store, tnow - delta)
        items == {TrendingItem(store, product, delta) :
                    product \in {e.product : e \in rows}}
        n == Cardinality(items)
        m == IF n < TrendingLimit THEN n ELSE TrendingLimit
    IN {SubSeq(f, 1, m) : f \in OrdersBy(items)}

\* lines 93-98
TrendingScore(item) ==
    item.interaction_count + item.purchase_count * PurchaseBoost
        + item.velocity * VelocityBoost

MaxOf(a, b) == IF a > b THEN a ELSE b
TrendingVelocity(item) == Rat(item.velocity, MaxOf(item.interaction_count, 1))

\* the row update_or_create leaves for one item, lines 101-110
TrendingRow(store, window, item, idx) ==
    [store |-> store, product |-> item.product, calculation_window |-> window,
     score |-> TrendingScore(item), velocity |-> TrendingVelocity(item),
     rank |-> idx]

TrendingKey(r) == <<r.store, r.product, r.calculation_window>>

\* the table after the loop of lines 88-113 over `data`: every item's key is
\* created or overwritten, every other row is left as it is
Upserted_accumulating(store, window, data) ==
    LET new == {TrendingRow(store, window, data[k], k) : k \in 1..Len(data)}
        old(r) == {q \in trending : TrendingKey(q) = TrendingKey(r)}
    IN {r \in trending : \A q \in new : TrendingKey(q) # TrendingKey(r)}
         \cup {IF old(r) = {} THEN r
               ELSE [r EXCEPT !.score = @ + (CHOOSE q \in old(r) : TRUE).score]
               : r \in new}

Upserted(store, window, data) ==
    LET new == {TrendingRow(store, window, data[k], k) : k \in 1..Len(data)}
    IN {r \in trending : \A q \in new : TrendingKey(q) # TrendingKey(r)} \cup new

\* line 63: Store.objects.get(id=store_id); an unknown id ends the task
StartTrending(store_id) ==
    /\ task = NoTask
    /\ budget < MaxEvents
    /\ budget' = budget + 1
    /\ task' = IF store_id \in Stores THEN [store |-> store_id, w |-> 1] ELSE NoTask
    /\ UNCHANGED <<interactions, tnow, trending, written, rewritten>>
    /\ UNCHANGED <<storeVars, hybridVars, behaviorVars, queryVars>>

\* one iteration of the loop of line 73: a window is queried and written
TrendingWindow ==
    /\ task # NoTask
    /\ LET w == Windows[task.w] IN
       \E data \in TrendingData(task.store, w.delta) :
          /\ trending' = Upserted(task.store, w.name, data)
          /\ written' = [k \in 1..Len(data) |-> data[k].product]
          /\ rewritten' = rewritten \cup
                {TrendingKey(r) : r \in {q \in trending :
                    \E n \in trending' : /\ TrendingKey(n) = TrendingKey(q)
                                         /\ n.score # q.score}}
    /\ task' = IF task.w < Len(Windows) THEN [task EXCEPT !.w = @ + 1] ELSE NoTask
    /\ UNCHANGED <<interactions, tnow, budget>>
    /\ UNCHANGED <<storeVars, hybridVars, behaviorVars, queryVars>>

NextTrending ==
    \/ \E e \in Arrivals : RecordInteraction(e)
    \/ \E d \in Jumps : AdvanceClock(d)
    \/ \E store_id \in Stores \cup {"unknown"} : StartTrending(store_id)
    \/ TrendingWindow

\* the subjects of a request: a known user, an anonymous session, and a
\* user whose user_id is not a number
KnownUser == <<"1", "">>
Anonymous == <<NoneId, "s1">>
NamedUser == <<"alice", "">>

\* a request for recommendations arrives at a service bound to one of
\* `stores`; the engine proposes some of `products`
StartGet(p, stores, subjects, products, limit) ==
    /\ calls.up < limit
    /\ \E store \in stores, subj \in subjects, v \in 1..NumInputs :
         \E plist \in ProductLists(products \cap ProductsOf(store)) :
            StartGetRecommendations(p, store, subj[1], subj[2], plist, v)

\* a feedback call arrives with the id of a stored row, or an unknown id
StartFb(p, stores, limit) ==
    /\ calls.fb < limit
    /\ \E store \in stores, kind \in FeedbackKinds, rec_id \in 1..(Len(recs) + 1) :
         StartFeedback(p, store, kind, rec_id)

\* Concurrent workers: the handlers interleave freely between their
\* statements; the requests are for one product of tenant A.
Next ==
    \E p \in Procs :
        \/ StartGet(p, {"A"}, {KnownUser, Anonymous}, {1}, MaxUpserts)
        \/ GocGet(p)
        \/ GocCreate(p)
        \/ GocReget(p)
        \/ UpdSave(p)
        \/ StartFb(p, {"A"}, MaxFeedback)
        \/ FbGet(p)
        \/ FbSave(p)
        \/ ProfileGet(p)
        \/ ProfileSave(p)
        \/ Raise(p)

\* A single worker: one request at a time, for one product of tenant A.
NextSeq ==
    \/ StartGet(1, {"A"}, {KnownUser, Anonymous, NamedUser}, {1}, MaxSeqUpserts)
    \/ GocGet(1)
    \/ GocCreate(1)
    \/ UpdSave(1)
    \/ StartFb(1, {"A"}, MaxSeqFeedback)
    \/ FbGet(1)
    \/ FbSave(1)
    \/ ProfileGet(1)
    \/ ProfileSave(1)
    \/ Raise(1)

\* A single worker serving both tenants, any product.
NextTenants ==
    \/ StartGet(1, Stores, {KnownUser, Anonymous, NamedUser}, ProductPks, MaxSeqUpserts)
    \/ GocGet(1)
    \/ GocCreate(1)
    \/ UpdSave(1)
    \/ StartFb(1, Stores, MaxFeedback)
    \/ FbGet(1)
    \/ FbSave(1)
    \/ ProfileGet(1)
    \/ ProfileSave(1)
    \/ Raise(1)

\* ------------------------------------------------- reads and retention
MaxSteps == 4       \* requests, clock jumps and cleanup runs in one behaviour

\* expires_at is NULL (recommendations/models.py, line 48)
NoExpiry == -1
\* timedelta(days=30) of recommendations/tasks.py, line 171, in hours
CleanupAfter == 720
\* hours that pass between two requests
StoreJumps == {25, 700}

\* what one behaviour has started so far
Spent == calls.up + calls.fb + calls.jumps + calls.cleanups

PassTime(d) ==
    /\ pc[1] = "idle"
    /\ Spent < MaxSteps
    /\ calls' = [calls EXCEPT !.jumps = @ + 1]
    /\ now' = now + d
    /\ UNCHANGED <<recs, profiles, pc, op, snap, prof, hist>>
    /\ UNCHANGED <<trendVars, hybridVars, behaviorVars, queryVars>>

\* RecommendationViewSet.perform_create with RecommendationCreateSerializer
\* (recommendations/serializers.py, lines 35-70): a row of the caller's
\* store for a session, with the expires_at the caller sent, if any
CreateRecommendation(store, product, expires_at) ==
    /\ pc[1] = "idle"
    /\ Spent < MaxSteps
    /\ calls' = [calls EXCEPT !.up = @ + 1]
    /\ LET row == [NoRow EXCEPT !.id = Len(recs) + 1, !.store = store,
                                !.session_id = "s1", !.product = product,
                                !.algorithm = "popularity", !.score = 1,
                                !.rank = 1, !.created_at = now,
                                !.expires_at = expires_at]
       IN /\ recs' = Append(recs, row)
          /\ hist' = Append(hist, [shown |-> 0, click |-> 0, purchase |-> 0,
                                   ranking |-> Ranking(row)])
    /\ UNCHANGED <<profiles, now, pc, op, snap, prof>>
    /\ UNCHANGED <<trendVars, hybridVars, behaviorVars, queryVars>>

\* the query parameter active_only of a read: absent, or the text sent
Absent == "absent"
ActiveOnlyParams == {Absent, "TRUE", "false", "1"}
\* str.lower()
Lower(text) ==
    CASE text = "TRUE" -> "true"
      [] text = "FALSE" -> "false"
      [] OTHER -> text
\* query_params.get('active_only', 'true').lower() == 'true'
ActiveOnly(param) == Lower(IF param = Absent THEN "true" ELSE param) = "true"

\* RecommendationViewSet.get_queryset (recommendations/views.py, lines 34-47)
Queryset(store, param) ==
    {i \in 1..Len(recs) :
        /\ recs[i] # NoRow
        /\ recs[i].store = store
        /\ ActiveOnly(param) =>
              (recs[i].expires_at = NoExpiry \/ recs[i].expires_at > now)}

\* GET of the recommendation list by a client authenticated for `store`
ListRecommendations(store, param) ==
    /\ pc[1] = "idle"
    /\ listed' = [store |-> store, active_only |-> param,
                  ids |-> Queryset(store, param)]
    /\ UNCHANGED <<prices, similar, eout>>
    /\ UNCHANGED <<storeVars, trendVars, hybridVars, behaviorVars>>

\* the rows matched by the filter of cleanup_old_recommendations
\* (recommendations/tasks.py, lines 171-177); a NULL expires_at compares
\* to nothing
Stale_expiredOnly(r) == r.expires_at # NoExpiry /\ r.expires_at < now
Stale(r) ==
    \/ r.created_at < now - CleanupAfter
    \/ (r.expires_at # NoExpiry /\ r.expires_at < now)

\* cleanup_old_recommendations: one DELETE; a deleted row leaves its id unused
CleanupOldRecommendations ==
    /\ pc[1] = "idle"
    /\ Spent < MaxSteps
    /\ calls' = [calls EXCEPT !.cleanups = @ + 1]
    /\ recs' = [i \in 1..Len(recs) |->
                    IF recs[i] # NoRow /\ Stale(recs[i]) THEN NoRow ELSE recs[i]]
    /\ UNCHANGED <<profiles, now, pc, op, snap, prof, hist>>
    /\ UNCHANGED <<trendVars, hybridVars, behaviorVars, queryVars>>

\* A single worker serving tenant A, clients of both tenants creating and
\* reading rows, while time passes.
NextReads ==
    \/ Spent < MaxSteps /\ StartGet(1, {"A"}, {KnownUser}, {1}, MaxSteps)
    \/ GocGet(1)
    \/ GocCreate(1)
    \/ UpdSave(1)
    \/ \E d \in StoreJumps : PassTime(d)
    \/ \E store \in Stores, expires_at \in {NoExpiry, now + 1} :
          CreateRecommendation(store, IF store = "A" THEN 1 ELSE 3, expires_at)
    \/ \E store \in Stores, param \in ActiveOnlyParams :
          ListRecommendations(store, param)

\* A single worker serving tenant A, clients of both tenants creating rows,
\* while time passes and the cleanup task runs.
NextRetention ==
    \/ Spent < MaxSteps /\ StartGet(1, {"A"}, {KnownUser}, {1}, MaxSteps)
    \/ GocGet(1)
    \/ GocCreate(1)
    \/ UpdSave(1)
    \/ Spent < MaxSteps /\ StartFb(1, {"A"}, MaxSteps)
    \/ FbGet(1)
    \/ FbSave(1)
    \/ ProfileGet(1)
    \/ ProfileSave(1)
    \/ \E d \in StoreJumps : PassTime(d)
    \/ \E store \in Stores, expires_at \in {NoExpiry, now + 1} :
          CreateRecommendation(store, IF store = "A" THEN 1 ELSE 3, expires_at)
    \/ CleanupOldRecommendations

\* ======================================================== behaviour
\* update_user_behavior_profile (interactions/tasks.py)
MaxViews == 11      \* views in a user's log
MaxPurchases == 11  \* purchases in a user's log
MaxOthers == 2      \* cart_adds in a user's log

FrequentAbove == 10
OccasionalAbove == 3

NoBehaviorProfile ==
    [exists |-> FALSE, store |-> "", total_interactions |-> 0, total_views |-> 0,
     total_purchases |-> 0, total_cart_adds |-> 0, purchase_frequency |-> "",
     browsing_pattern |-> "", avg_order_value |-> 0, price_preference |-> <<>>]

BehaviorIdle ==
    /\ bprofiles = [u \in UserPks |-> NoBehaviorProfile]
    /\ btasks = <<>>

\* values of a purchase, in currency units
PurchaseValues == {0, 30, 50}

\* a log of user 1 of store A on product 1: v views, then p purchases (the
\* first of value `first`, the others of value 50), then c cart_adds; with it
\* a purchase of user 2 of store B and an anonymous view in store A
LogRow(id, user, store, product, type, value) ==
    SavedInteraction(
        [id |-> id, store |-> store, user |-> user, product |-> product,
         interaction_type |-> type, value |-> value,
         weight |-> DefaultInteractionWeight, created_at |-> 0])
UserLog(v, p, c, first) ==
    {LogRow(i, 1, "A", 1, "view", DefaultValue) : i \in 1..v}
      \cup {LogRow(v + i, 1, "A", 1, "purchase", IF i = 1 THEN first ELSE 50) :
              i \in 1..p}
      \cup {LogRow(v + p + i, 1, "A", 1, "cart_add", DefaultValue) : i \in 1..c}
      \cup {LogRow(v + p + c + 1, 2, "B", 3, "purchase", 50),
            LogRow(v + p + c + 2, NoUser, "A", 1, "view", DefaultValue)}

BehaviorInit ==
    /\ \E v \in 0..MaxViews, p \in 0..MaxPurchases, c \in 0..MaxOthers,
          first \in PurchaseValues : interactions = UserLog(v, p, c, first)
    /\ tnow = 0
    /\ trending = {}
    /\ task = NoTask
    /\ written = <<>>
    /\ rewritten = {}
    /\ budget = 0

\* Sum('value') over a set of rows
RECURSIVE SumValue(_)
SumValue(rows) ==
    IF rows = {} THEN 0
    ELSE LET r == CHOOSE x \in rows : TRUE IN r.value + SumValue(rows \ {r})

\* a quotient stored in a DecimalField with two decimal places: the number
\* of hundredths, rounded half to even
Hundredths(num, den) ==
    LET q == (100 * num) \div den
        r == (100 * num) % den
    IN IF 2 * r > den \/ (2 * r = den /\ q % 2 = 1) THEN q + 1 ELSE q

\* lines 78-83
purchase_frequency_inclusive(total_purchases) ==
    IF total_purchases >= FrequentAbove THEN "frequent"
    ELSE IF total_purchases >= OccasionalAbove THEN "occasional"
    ELSE "rare"

purchase_frequency(total_purchases) ==
    IF total_purchases > FrequentAbove THEN "frequent"
    ELSE IF total_purchases > OccasionalAbove THEN "occasional"
    ELSE "rare"

\* lines 86-91: views > interactions * 0.8, purchases / max(views, 1) > 0.1
browsing_pattern(total_interactions, total_views, total_purchases) ==
    IF 10 * total_views > 8 * total_interactions THEN "explorer"
    ELSE IF 10 * total_purchases > MaxOf(total_views, 1) THEN "focused"
    ELSE "browser"

\* lines 66-75: {'min', 'max', 'avg'} of the values of the purchases, the
\* average kept as the sum and the number of rows; <<>> is the empty dict
PricePreference(purchases) ==
    <<CHOOSE v \in {e.value : e \in purchases} : \A e \in purchases : v <= e.value,
      CHOOSE v \in {e.value : e \in purchases} : \A e \in purchases : v >= e.value,
      SumValue(purchases), Cardinality(purchases)>>

\* lines 13-100, for an existing user
BehaviorProfile(user, old) ==
    LET rows == {e \in interactions : e.user = user}
        ofType(t) == {e \in rows : e.interaction_type = t}
        purchases == {e \in ofType("purchase") : e.value > 0}
        total_interactions == Cardinality(rows)
        total_views == Cardinality(ofType("view"))
        total_purchases == Cardinality(ofType("purchase"))
    IN [exists |-> TRUE, store |-> UserStore(user),
        total_interactions |-> total_interactions,
        total_views |-> total_views,
        total_purchases |-> total_purchases,
        total_cart_adds |-> Cardinality(ofType("cart_add")),
        purchase_frequency |-> purchase_frequency(total_purchases),
        browsing_pattern |->
            browsing_pattern(total_interactions, total_views, total_purchases),
        avg_order_value |->
            IF total_purchases > 0
            THEN Hundredths(SumValue(purchases), total_purchases)
            ELSE old.avg_order_value,
        price_preference |->
            IF purchases # {} THEN PricePreference(purchases)
            ELSE old.price_preference]

\* update_user_behavior_profile(user_id); User.DoesNotExist: pass
UpdateUserBehaviorProfile(user_id) ==
    /\ budget < MaxEvents
    /\ budget' = budget + 1
    /\ IF user_id \in UserPks
       THEN bprofiles' = [bprofiles EXCEPT ![user_id] = BehaviorProfile(user_id, @)]
       ELSE UNCHANGED bprofiles
    /\ UNCHANGED btasks
    /\ UNCHANGED <<interactions, tnow, trending, task, written, rewritten>>
    /\ UNCHANGED <<storeVars, hybridVars, queryVars>>

UnknownUserPk == 9

\* ---------------------------------------------- overlapping profile tasks
MaxTasks == 3       \* interactions created, each enqueueing a task

\* Interaction.objects.create for a user; the post_save receiver of
\* interactions/signals.py, lines 7-13, enqueues update_user_behavior_profile
\* for the user once the row is committed
CreateUserInteraction(user, type) ==
    /\ Len(btasks) < MaxTasks
    /\ interactions' = interactions \cup
            {LogRow(Cardinality(interactions) + 1, user, UserStore(user), 1, type,
                    DefaultValue)}
    /\ btasks' = Append(btasks, [user |-> user, at |-> "queued",
                                 profile |-> NoBehaviorProfile])
    /\ UNCHANGED <<tnow, trending, task, written, rewritten, budget, bprofiles>>
    /\ UNCHANGED <<storeVars, hybridVars, queryVars>>

\* lines 14-20 in a worker: the user is found, and get_or_create returns the
\* profile row of (store, user), which it inserts when there is none; the
\* unique key of models.py, line 269, keeps a second insert out
TaskGetOrCreate(i) ==
    /\ btasks[i].at = "queued"
    /\ LET u == btasks[i].user
           row == IF bprofiles[u].exists THEN bprofiles[u]
                  ELSE [NoBehaviorProfile EXCEPT !.exists = TRUE,
                                                 !.store = UserStore(u)]
       IN /\ bprofiles' = [bprofiles EXCEPT ![u] = row]
          /\ btasks' = [btasks EXCEPT ![i].at = "loaded", ![i].profile = row]
    /\ UNCHANGED <<trendVars, storeVars, hybridVars, queryVars>>

\* lines 23-98: the queries run and the instance in memory gets its fields
TaskCompute(i) ==
    /\ btasks[i].at = "loaded"
    /\ btasks' = [btasks EXCEPT
                    ![i].at = "computed",
                    ![i].profile = BehaviorProfile(btasks[i].user, btasks[i].profile)]
    /\ UNCHANGED <<bprofiles, trendVars, storeVars, hybridVars, queryVars>>

\* line 100: profile.save() writes every column of the instance
TaskSave(i) ==
    /\ btasks[i].at = "computed"
    /\ bprofiles' = [bprofiles EXCEPT ![btasks[i].user] = btasks[i].profile]
    /\ btasks' = [btasks EXCEPT ![i].at = "done"]
    /\ UNCHANGED <<trendVars, storeVars, hybridVars, queryVars>>

\* workers run the enqueued tasks concurrently while interactions arrive
NextOverlap ==
    \/ \E type \in {"view", "purchase"} : CreateUserInteraction(1, type)
    \/ \E i \in 1..Len(btasks) : TaskGetOrCreate(i)
    \/ \E i \in 1..Len(btasks) : TaskCompute(i)
    \/ \E i \in 1..Len(btasks) : TaskSave(i)

\* timedelta(days=730), in half hours
TwoYears == 35040

\* cleanup_old_interactions (interactions/tasks.py, lines 163-175)
CleanupOldInteractions ==
    /\ budget < MaxEvents
    /\ budget' = budget + 1
    /\ interactions' = {e \in interactions : ~(e.created_at < tnow - TwoYears)}
    /\ UNCHANGED <<tnow, trending, task, written, rewritten>>
    /\ UNCHANGED <<storeVars, hybridVars, behaviorVars, queryVars>>

\* more than two years pass, once
YearsPass ==
    /\ tnow = 0
    /\ tnow' = tnow + TwoYears + 1
    /\ UNCHANGED <<interactions, trending, task, written, rewritten, budget>>
    /\ UNCHANGED <<storeVars, hybridVars, behaviorVars, queryVars>>

\* a short log of user 1, as UserLog builds it
ShortLogInit ==
    /\ \E v \in 0..1, p \in 0..2, c \in 0..1, first \in PurchaseValues :
          interactions = UserLog(v, p, c, first)
    /\ tnow = 0
    /\ trending = {}
    /\ task = NoTask
    /\ written = <<>>
    /\ rewritten = {}
    /\ budget = 0

\* profiles are rebuilt while interactions arrive, time passes and old
\* interactions are cleaned up
NextRebuild ==
    \/ \E user_id \in {1, 2} : UpdateUserBehaviorProfile(user_id)
    \/ CleanupOldInteractions
    \/ YearsPass
    \/ \E type \in {"view", "purchase"} : CreateInteraction("A", 1, 1, type, 10)

NextBehavior ==
    \E user_id \in UserPks \cup {UnknownUserPk} : UpdateUserBehaviorProfile(user_id)

\* ============================================================ products
\* products table (products/models.py): category and price of a product;
\* a price is <<>> when the column is NULL, else <<amount>>
\* the catalogue the content-based generator draws from: store A also sells
\* products 4 and 5, of a second category
CataloguePks == ProductPks \cup {4, 5}
CatalogueOf(store) == {pk \in CataloguePks : ProductStore(pk) = store}
ProductCategory(pk) == IF pk \in {4, 5} THEN "c2" ELSE "c1"
NoPrice == <<>>
PriceValues == {NoPrice, <<0>>, <<10>>, <<20>>}
DefaultPrices == [pk \in ProductPks |-> IF pk = 3 THEN NoPrice ELSE <<10 * pk>>]
\* `if product.price`: a price that is there and not zero
Truthy(price) == price # NoPrice /\ price[1] # 0

NoCall ==
    [engine |-> "", store |-> "", user_id |-> "", context |-> "", max_results |-> 0,
     raised |-> FALSE, recs |-> <<>>]
NoListing == [store |-> "", active_only |-> "", ids |-> {}]

QueryIdle ==
    /\ prices = DefaultPrices
    /\ similar = {}
    /\ eout = NoCall
    /\ listed = NoListing

\* ============================================================ hybrid
\* HybridRecommendationEngine (recommendations/services.py)
ScoreDen == 2       \* generator scores are 0/ScoreDen .. ScoreDen/ScoreDen
MaxResults == 2     \* largest max_results asked for

\* self.engines, in the order the dict is iterated (lines 207-211)
HybridEngines == <<"popularity", "collaborative", "content">>
\* lines 246-250, in hundredths
weights == [collaborative |-> 40, content |-> 35, popularity |-> 25]
DefaultWeight == 10
WeightOf(engine_name) ==
    IF engine_name \in DOMAIN weights THEN weights[engine_name] ELSE DefaultWeight

HybridProducts == {1, 2}
Raised == [raised |-> TRUE, recs |-> <<>>]
Returned(list) == [raised |-> FALSE, recs |-> list]
\* what one generator may answer: it raises, or returns a list of distinct
\* products, each with a score in [0, 1] and the generator's explanation
EngineOutputs(engine_name) ==
    LET lists == {<<>>} \cup ProductLists(HybridProducts)
        scored(l) == {[i \in 1..Len(l) |->
                         [product |-> l[i], score |-> Rat(f[i], ScoreDen),
                          explanation |-> engine_name]] :
                      f \in [1..Len(l) -> 0..ScoreDen]}
    IN {Raised} \cup
       UNION {{[raised |-> FALSE, recs |-> r] : r \in scored(l)} : l \in lists}

NoOutput == [done |-> FALSE, max_results |-> 0, raised |-> FALSE, recs |-> <<>>]

HybridIdle ==
    /\ hin = [k \in 1..Len(HybridEngines) |-> Raised]
    /\ hout = NoOutput
HybridInit ==
    /\ hin \in EngineOutputs(HybridEngines[1]) \X EngineOutputs(HybridEngines[2])
                \X EngineOutputs(HybridEngines[3])
    /\ hout = NoOutput

\* lines 217-240: all_recommendations after the first k generators, as a
\* sequence of entries in insertion order; a generator that raised adds nothing
RECURSIVE Merge(_, _)
Merge(all, rs) ==
    IF rs = <<>> THEN all
    ELSE LET rec == Head(rs).rec
             engine_name == Head(rs).engine
             at == {i \in 1..Len(all) : all[i].product = rec.product}
             added == IF at = {}
                      THEN Append(all, [product |-> rec.product,
                                        scores |-> <<>>, explanations |-> <<>>])
                      ELSE all
             i == CHOOSE j \in 1..Len(added) : added[j].product = rec.product
             others == SelectSeq(added[i].scores, LAMBDA e : e.engine # engine_name)
         IN Merge([added EXCEPT
                     ![i].scores = Append(others, [engine |-> engine_name,
                                                   score |-> rec.score]),
                     ![i].explanations = Append(@, rec.explanation)],
                  Tail(rs))

RECURSIVE Collected(_, _)
Collected(results, k) ==
    IF k = 0 THEN <<>>
    ELSE Merge(Collected(results, k - 1),
               [i \in 1..Len(results[k].recs) |->
                   [engine |-> HybridEngines[k], rec |-> results[k].recs[i]]])

\* lines 252-261: the weighted average over the scores that are present
RECURSIVE Gcd(_, _)
Gcd(a, b) == IF b = 0 THEN a ELSE Gcd(b, a % b)
\* the same number in lowest terms
Lowest(r) == IF r[1] = 0 THEN ZeroRat
             ELSE Rat(r[1] \div Gcd(r[1], r[2]), r[2] \div Gcd(r[1], r[2]))
RatAdd(a, b) == Lowest(Rat(a[1] * b[2] + b[1] * a[2], a[2] * b[2]))
RECURSIVE WeightedSum(_)
WeightedSum(scores) ==
    IF scores = <<>> THEN ZeroRat
    ELSE RatAdd(Rat(Head(scores).score[1] * WeightOf(Head(scores).engine),
                    Head(scores).score[2]),
                WeightedSum(Tail(scores)))
RECURSIVE TotalWeight(_)
TotalWeight(scores) ==
    IF scores = <<>> THEN 0
    ELSE WeightOf(Head(scores).engine) + TotalWeight(Tail(scores))

CombinedScore_allWeights(scores) ==
    Lowest(Rat(WeightedSum(scores)[1],
               WeightedSum(scores)[2]
                   * (weights.collaborative + weights.content + weights.popularity)))

CombinedScore(scores) ==
    IF TotalWeight(scores) > 0
    THEN Lowest(Rat(WeightedSum(scores)[1],
                    WeightedSum(scores)[2] * TotalWeight(scores)))
    ELSE WeightedSum(scores)

RatLess(a, b) == a[1] * b[2] < b[1] * a[2]

\* line 270: list.sort(key=score, reverse=True); equal scores keep their order
RECURSIVE InsertByScore(_, _)
InsertByScore(sorted, x) ==
    IF sorted = <<>> THEN <<x>>
    ELSE IF RatLess(Head(sorted).score, x.score)
         THEN <<x>> \o sorted
         ELSE <<Head(sorted)>> \o InsertByScore(Tail(sorted), x)
RECURSIVE SortByScore(_)
SortByScore(xs) ==
    IF xs = <<>> THEN <<>>
    ELSE InsertByScore(SortByScore(SubSeq(xs, 1, Len(xs) - 1)), xs[Len(xs)])

\* dict.fromkeys(explanations): first occurrences, in order
RECURSIVE Unique(_)
Unique(xs) ==
    IF xs = <<>> THEN <<>>
    ELSE LET front == Unique(SubSeq(xs, 1, Len(xs) - 1))
             x == xs[Len(xs)]
         IN IF \E i \in 1..Len(front) : front[i] = x THEN front ELSE Append(front, x)

\* lines 279-289
combine_explanations(explanations) ==
    IF explanations = <<>> THEN <<"Recommended for you">>
    ELSE LET unique_explanations == Unique(explanations) IN
         IF Len(unique_explanations) = 1 THEN <<unique_explanations[1]>>
         ELSE <<unique_explanations[1], "and", "lower", unique_explanations[2]>>

\* lines 242-277
HybridResult_untruncated(results, max_results) ==
    LET all == Collected(results, Len(results))
        final == SortByScore([i \in 1..Len(all) |->
                    [product |-> all[i].product,
                     score |-> CombinedScore(all[i].scores),
                     explanations |-> all[i].explanations]])
    IN [idx \in 1..Len(final) |->
          [product |-> final[idx].product, score |-> final[idx].score,
           explanations |-> final[idx].explanations, rank |-> idx,
           explanation |-> combine_explanations(final[idx].explanations)]]

HybridResult(results, max_results) ==
    LET all == Collected(results, Len(results))
        final == SortByScore([i \in 1..Len(all) |->
                    [product |-> all[i].product,
                     score |-> CombinedScore(all[i].scores),
                     explanations |-> all[i].explanations]])
        n == IF Len(final) < max_results THEN Len(final) ELSE max_results
    IN [idx \in 1..n |->
          [product |-> final[idx].product, score |-> final[idx].score,
           explanations |-> final[idx].explanations, rank |-> idx,
           explanation |-> combine_explanations(final[idx].explanations)]]

\* lines 238-240, `except Exception: continue` around each generator's call
\* and the loop over what it returned: whether a generator's exception
\* leaves get_recommendations
Propagates_uncaught(results) == \E k \in 1..Len(results) : results[k].raised
Propagates(results) == FALSE

\* HybridRecommendationEngine.get_recommendations, lines 213-277, given what
\* the three generators answer
HybridCall(results, max_results) ==
    IF Propagates(results) THEN Raised
    ELSE Returned(HybridResult(results, max_results))

\* HybridRecommendationEngine.get_recommendations, lines 213-277; every
\* generator was asked for at most max_results * 2 entries
HybridGetRecommendations(max_results) ==
    /\ hout = NoOutput
    /\ \A k \in 1..Len(hin) : Len(hin[k].recs) <= max_results * 2
    /\ hout' = [done |-> TRUE, max_results |-> max_results,
                raised |-> HybridCall(hin, max_results).raised,
                recs |-> HybridCall(hin, max_results).recs]
    /\ UNCHANGED hin
    /\ UNCHANGED <<storeVars, trendVars, behaviorVars, queryVars>>

NextHybrid == \E max_results \in 1..MaxResults : HybridGetRecommendations(max_results)

\* ========================================================= generators
\* PopularityBasedEngine, CollaborativeFilteringEngine, ContentBasedEngine
MaxOwnPurchases == 4        \* purchases of the target user in a log
MaxNeighbourPurchases == 3  \* purchases of the other user in a log
NeighbourSearches == 5      \* searches of the other user in a log, when any

ThirtyDays == 1440      \* half hours
PopularityPurchaseBoost == 5
PopularityScale == 100
CollaborativePurchaseBoost == 3
CollaborativeScale == 10
SimilarUsersLimit == 10
ContentPurchaseBoost == 2
ContentScale == 10
CategoryLimit == 5

\* the sequences that list the set S once each, largest Key first; equal
\* keys come in any order
Descending(S, key) ==
    LET n == Cardinality(S) IN
    {f \in [1..n -> S] :
        /\ \A a, b \in 1..n : a # b => f[a] # f[b]
        /\ \A a, b \in 1..n : a < b => key[f[a]] >= key[f[b]]}
FirstN(f, n) == SubSeq(f, 1, IF Len(f) < n THEN Len(f) ELSE n)

\* min(x, 1.0)
MinOne_unclamped(r) == r
MinOne(r) == IF r[1] > r[2] THEN Rat(1, 1) ELSE r

PurchasesIn(rows) == Cardinality({e \in rows : e.interaction_type = "purchase"})

\* `if not user_id`
Falsy(user_id) == user_id = NoneId \/ user_id = ""
\* User.objects.get(store=self.store, user_id=user_id): the users found
UsersFound(store, user_id) ==
    {u \in UserPks : UserStore(u) = store /\ UserExtId(u) = user_id}

\* `except User.DoesNotExist: return []`, lines 69-70 and 125-126
UserDoesNotExist_propagated == Raised
UserDoesNotExist == Returned(<<>>)

\* PopularityBasedEngine.get_recommendations, lines 31-58
PopularityOutputs(store, max_results) ==
    LET rows == {e \in interactions :
                    /\ e.store = store
                    /\ e.created_at >= tnow - ThirtyDays
                    /\ e.product # NoProduct}
        of(product) == {e \in rows : e.product = product}
        popularity_score(product) ==
            Cardinality(of(product)) + PurchasesIn(of(product)) * PopularityPurchaseBoost
        products == {e.product : e \in rows}
        orders == Descending(products, [pk \in products |-> popularity_score(pk)])
    IN {Returned(
          LET popular_products == FirstN(FirstN(f, max_results * 2), max_results) IN
          [idx \in 1..Len(popular_products) |->
             [product |-> popular_products[idx],
              score |-> MinOne(Rat(popularity_score(popular_products[idx]),
                                   idx * PopularityScale)),
              rank |-> idx,
              explanation |-> "popularity"]]) : f \in orders}

\* user.interactions.values_list('product_id') of line 73, and the products
\* interactions__user=user of line 146 matches: the products of the user's
\* interactions of any type, NULL for an interaction without a product
Interacted_purchased(user) ==
    {e.product : e \in {x \in interactions :
                            x.user = user /\ x.interaction_type = "purchase"}}
Interacted(user) == {e.product : e \in {x \in interactions : x.user = user}}

\* the candidates of lines 95-105: an item whose product is NULL has no
\* Product row and is skipped, keeping its position
RECURSIVE Candidates(_, _, _)
Candidates(items, idx, scores) ==
    IF idx > Len(items) THEN <<>>
    ELSE (IF items[idx] = NoProduct THEN <<>>
          ELSE <<[product |-> items[idx],
                  score |-> MinOne(Rat(scores[items[idx]], CollaborativeScale)),
                  rank |-> idx,
                  explanation |-> "collaborative"]>>)
         \o Candidates(items, idx + 1, scores)

\* CollaborativeFilteringEngine.get_recommendations, lines 63-107
CollaborativeOutputs(store, user_id, max_results) ==
    IF Falsy(user_id) THEN {Returned(<<>>)}
    ELSE IF UsersFound(store, user_id) = {} THEN {UserDoesNotExist}
    ELSE
    LET user == CHOOSE u \in UsersFound(store, user_id) : TRUE
        user_interactions == Interacted(user)
        \* product_id IN (...) never matches a NULL
        known == user_interactions \ {NoProduct}
        shared(u) == {e \in interactions : e.user = u /\ e.product \in known}
        candidates == {u \in UserPks \ {user} :
                          UserStore(u) = store /\ shared(u) # {}}
        k == IF Cardinality(candidates) < SimilarUsersLimit
             THEN Cardinality(candidates) ELSE SimilarUsersLimit
        picks == {S \in SUBSET candidates :
                    /\ Cardinality(S) = k
                    /\ \A a \in S, b \in candidates \ S :
                          Cardinality(shared(a)) >= Cardinality(shared(b))}
    IN IF user_interactions = {} THEN {Returned(<<>>)}
       ELSE UNION {
          LET rows == {e \in interactions :
                          /\ e.store = store
                          /\ e.user \in similar_users
                          /\ e.product \notin known}
              of(product) == {e \in rows : e.product = product}
              score(product) ==
                  Cardinality(of(product))
                      + PurchasesIn(of(product)) * CollaborativePurchaseBoost
              items == {e.product : e \in rows}
          IN {Returned(Candidates(FirstN(f, max_results), 1,
                                  [product \in items |-> score(product)])) :
                f \in Descending(items, [product \in items |-> score(product)])}
          : similar_users \in picks}

\* ContentBasedEngine._get_user_based_recommendations, lines 122-164
ContentUserOutputs(store, user_id, max_results) ==
    IF UsersFound(store, user_id) = {} THEN {UserDoesNotExist}
    ELSE
    LET user == CHOOSE u \in UsersFound(store, user_id) : TRUE
        rows == {e \in interactions : e.user = user /\ e.product # NoProduct}
        in(category) == {e \in rows : ProductCategory(e.product) = category}
        weight(category) ==
            Cardinality(in(category)) + PurchasesIn(in(category)) * ContentPurchaseBoost
        categories == {ProductCategory(e.product) : e \in rows}
        touched == Interacted(user)
    IN IF categories = {} THEN {Returned(<<>>)}
       ELSE UNION {
          LET user_categories == FirstN(cats, CategoryLimit)
              preferred == {user_categories[i] : i \in 1..Len(user_categories)}
              products == {pk \in CatalogueOf(store) :
                              ProductCategory(pk) \in preferred /\ pk \notin touched}
          IN {Returned(
                LET shown == FirstN(FirstN(f, max_results * 2), max_results) IN
                [idx \in 1..Len(shown) |->
                   [product |-> shown[idx],
                    score |-> MinOne(Rat(weight(ProductCategory(shown[idx])),
                                         ContentScale)),
                    rank |-> idx,
                    explanation |-> "content"]]) :
              f \in Descending(products, [pk \in products |-> 0])}
          : cats \in Descending(categories, [c \in categories |-> weight(c)])}

\* ContentBasedEngine._get_similar_products, lines 166-200: the lookup of
\* line 168 names a field product_id that Product does not have
\* (products/models.py, lines 4-35), which raises FieldError
ContentSimilarOutputs(store, product_id, max_results) == {Raised}

NoContext == ""
\* ContentBasedEngine.get_recommendations, lines 112-120
ContentOutputs(store, user_id, context, max_results) ==
    IF ~Falsy(user_id) THEN ContentUserOutputs(store, user_id, max_results)
    ELSE IF context # NoContext
         THEN ContentSimilarOutputs(store, context, max_results)
         ELSE {Returned(<<>>)}

\* HybridRecommendationEngine.get_recommendations over the three generators
HybridOutputs(store, user_id, context, max_results) ==
    {HybridCall(<<a, b, c>>, max_results) :
        a \in PopularityOutputs(store, max_results * 2),
        b \in CollaborativeOutputs(store, user_id, max_results * 2),
        c \in ContentOutputs(store, user_id, context, max_results * 2)}

EngineNames == {"popularity", "collaborative", "content", "hybrid"}
EngineOutputsOf(engine, store, user_id, context, max_results) ==
    CASE engine = "popularity"    -> PopularityOutputs(store, max_results)
      [] engine = "collaborative" -> CollaborativeOutputs(store, user_id, max_results)
      [] engine = "content"       -> ContentOutputs(store, user_id, context, max_results)
      [] engine = "hybrid"        -> HybridOutputs(store, user_id, context, max_results)

\* <Engine>(store).get_recommendations(user_id, session_id, max_results, context),
\* called once on the log
GetRecommendations(engine, store, user_id, context, max_results) ==
    /\ eout.engine \notin EngineNames
    /\ \E out \in EngineOutputsOf(engine, store, user_id, context, max_results) :
          eout' = [engine |-> engine, store |-> store, user_id |-> user_id,
                   context |-> context, max_results |-> max_results,
                   raised |-> out.raised, recs |-> out.recs]
    /\ UNCHANGED <<prices, similar, listed>>
    /\ UNCHANGED <<storeVars, trendVars, hybridVars, behaviorVars>>

\* ---------------------------------------------------- similar products
SimilarProductsLimit == 20
\* similarity_score = 0.7, the base for the same category
BaseSimilarity == Rat(7, 10)

\* lines 143-149 of recommendations/tasks.py: with both prices truthy and
\* the larger one positive, `price_similarity * 0.3` multiplies a Decimal
\* by a float, which raises TypeError
PriceTermRaises(source_product, target_product) ==
    /\ Truthy(prices[source_product])
    /\ Truthy(prices[target_product])
    /\ (prices[source_product][1] > 0 \/ prices[target_product][1] > 0)

\* the (source, target) pairs in the order of the two loops of lines 132-139,
\* for the products listed in the order f
RECURSIVE SimilarPairs(_, _)
SimilarPairs(f, i) ==
    IF i > Len(f) THEN <<>>
    ELSE LET similar_products ==
                FirstN(SelectSeq(f, LAMBDA t :
                          /\ ProductCategory(t) = ProductCategory(f[i])
                          /\ t # f[i]),
                       SimilarProductsLimit)
         IN [k \in 1..Len(similar_products) |-> <<f[i], similar_products[k]>>]
              \o SimilarPairs(f, i + 1)

\* SimilarProduct.objects.update_or_create of lines 152-161 for the pairs
SimilarUpserted(store, pairs, score) ==
    {r \in similar : ~\E k \in 1..Len(pairs) :
                        /\ r.store = store
                        /\ r.source_product = pairs[k][1]
                        /\ r.target_product = pairs[k][2]}
      \cup {[store |-> store, source_product |-> pairs[k][1],
              target_product |-> pairs[k][2], similarity_score |-> score,
              similarity_type |-> "content_based"] : k \in 1..Len(pairs)}

\* lines 165-166: `except Store.DoesNotExist` returns a message
StoreDoesNotExist_propagated(store_id) ==
    [NoCall EXCEPT !.engine = "precompute_similar_products", !.store = store_id,
                   !.raised = TRUE]
StoreDoesNotExist(store_id) ==
    [NoCall EXCEPT !.engine = "precompute_similar_products", !.store = store_id]

\* precompute_similar_products (recommendations/tasks.py, lines 120-166):
\* the rows of the pairs before the first one that raises are written
PrecomputeSimilarProducts(store_id) ==
    /\ eout = NoCall
    /\ IF store_id \notin Stores
       THEN /\ eout' = StoreDoesNotExist(store_id)
            /\ UNCHANGED similar
       ELSE \E f \in Descending(ProductsOf(store_id), [pk \in ProductsOf(store_id) |-> 0]) :
              LET pairs == SimilarPairs(f, 1)
                  raising == {k \in 1..Len(pairs) :
                                PriceTermRaises(pairs[k][1], pairs[k][2])}
                  done == IF raising = {} THEN Len(pairs)
                          ELSE (CHOOSE k \in raising : \A j \in raising : k <= j) - 1
              IN /\ similar' = SimilarUpserted(store_id, SubSeq(pairs, 1, done),
                                               BaseSimilarity)
                 /\ eout' = [NoCall EXCEPT !.engine = "precompute_similar_products",
                                           !.store = store_id,
                                           !.raised = (raising # {})]
    /\ UNCHANGED <<prices, listed>>
    /\ UNCHANGED <<storeVars, trendVars, hybridVars, behaviorVars>>

\* RecommendationService.get_similar_products (services.py, lines 353-371):
\* _get_similar_products raises before anything is written
GetSimilarProducts(store, product_id) ==
    /\ eout = NoCall
    /\ \E out \in ContentSimilarOutputs(store, product_id, MaxResults) :
          /\ eout' = [NoCall EXCEPT !.engine = "get_similar_products",
                                    !.store = store, !.context = product_id,
                                    !.raised = out.raised, !.recs = out.recs]
          /\ similar' = SimilarUpserted(store,
                            [k \in 1..Len(out.recs) |->
                                <<ToProductPk(product_id), out.recs[k].product>>],
                            BaseSimilarity)
    /\ UNCHANGED <<prices, listed>>
    /\ UNCHANGED <<storeVars, trendVars, hybridVars, behaviorVars>>

\* a log of store A: user 1 viewed and purchased product 1, searched
\* without a product and viewed product 4; user 3 purchased products 1 and
\* 2 and searched without a product; somebody viewed product 2 more than
\* thirty days ago; and a purchase in store B
EngineLog(a, b, c, d, g, h, k) ==
    {LogRow(i, 1, "A", 1, "view", DefaultValue) : i \in 1..a}
      \cup {LogRow(10 + i, 1, "A", 1, "purchase", 50) : i \in 1..b}
      \cup {LogRow(20 + i, 3, "A", 1, "purchase", 50) : i \in 1..c}
      \cup {LogRow(30 + i, 3, "A", 2, "purchase", 50) : i \in 1..d}
      \cup {[LogRow(40, NoUser, "A", 2, "view", DefaultValue)
                EXCEPT !.created_at = 0 - ThirtyDays - 1]}
      \cup {LogRow(50 + i, 1, "A", NoProduct, "search", DefaultValue) : i \in 1..g}
      \cup {LogRow(60, 2, "B", 3, "purchase", 50)}
      \cup {LogRow(70 + i, 3, "A", NoProduct, "search", DefaultValue) : i \in 1..h}
      \cup {LogRow(80 + i, 1, "A", 4, "view", DefaultValue) : i \in 1..k}

\* any such log with the default prices, or the fullest log with any prices
\* of the two products of store A
EngineInit ==
    /\ \/ /\ \E a \in 0..1, b \in 0..MaxOwnPurchases, c \in 0..1,
                d \in 0..MaxNeighbourPurchases, g \in 0..1,
                h \in {0, NeighbourSearches}, k \in 0..1 :
                  interactions = EngineLog(a, b, c, d, g, h, k)
          /\ prices = DefaultPrices
       \/ /\ interactions = EngineLog(1, MaxOwnPurchases, 1, MaxNeighbourPurchases, 1, 0, 0)
          /\ prices \in {q \in [ProductPks -> PriceValues] : q[3] = DefaultPrices[3]}
    /\ similar = {}
    /\ eout = NoCall
    /\ listed = NoListing
    /\ tnow = 0
    /\ trending = {}
    /\ task = NoTask
    /\ written = <<>>
    /\ rewritten = {}
    /\ budget = 0

UserIds == {NoneId, "", "1", "2", "3"}
Contexts == {NoContext, "p1"}

NextEngines ==
    \/ \E engine \in EngineNames, store \in Stores, user_id \in UserIds,
          context \in Contexts, max_results \in 1..MaxResults :
           GetRecommendations(engine, store, user_id, context, max_results)
    \/ \E store_id \in Stores \cup {"unknown"} : PrecomputeSimilarProducts(store_id)
    \/ \E store \in Stores : GetSimilarProducts(store, "p1")

Init == StoreInit /\ TrendIdle /\ HybridIdle /\ BehaviorIdle /\ QueryIdle
InitTrending == StoreInit /\ TrendInit /\ HybridIdle /\ BehaviorIdle /\ QueryIdle
InitHybrid == StoreInit /\ TrendIdle /\ HybridInit /\ BehaviorIdle /\ QueryIdle
InitBehavior == StoreInit /\ BehaviorInit /\ HybridIdle /\ BehaviorIdle /\ QueryIdle
InitEngines == StoreInit /\ EngineInit /\ HybridIdle /\ BehaviorIdle

Spec == Init /\ [][Next]_vars
SpecSeq == Init /\ [][NextSeq]_vars
SpecTenants == Init /\ [][NextTenants]_vars
SpecReads == Init /\ [][NextReads]_vars
SpecRetention == Init /\ [][NextRetention]_vars
SpecTrending == InitTrending /\ [][NextTrending]_vars
SpecHybrid == InitHybrid /\ [][NextHybrid]_vars
SpecInteractions == Init /\ [][NextInteractions]_vars
\* the service, the tasks and the feedback calls of one worker, each of them
\* also called for a user, a recommendation or a store that does not exist
NotFoundInit ==
    /\ \E v \in 0..1 : interactions = UserLog(v, 1, 0, 50)
    /\ tnow = 0
    /\ trending = {}
    /\ task = NoTask
    /\ written = <<>>
    /\ rewritten = {}
    /\ budget = 0
NextNotFound ==
    \/ StartGet(1, {"A"}, {KnownUser}, {1}, 1)
    \/ GocGet(1)
    \/ GocCreate(1)
    \/ StartFb(1, {"A"}, MaxFeedback)
    \/ FbGet(1)
    \/ FbSave(1)
    \/ ProfileGet(1)
    \/ ProfileSave(1)
    \/ \E user_id \in {1, UnknownUserPk} : UpdateUserBehaviorProfile(user_id)
    \/ \E store_id \in {"A", "unknown"} : StartTrending(store_id)
    \/ TrendingWindow
    \/ \E store_id \in {"A", "unknown"} : PrecomputeSimilarProducts(store_id)
InitNotFound == StoreInit /\ NotFoundInit /\ HybridIdle /\ BehaviorIdle /\ QueryIdle
SpecNotFound == InitNotFound /\ [][NextNotFound]_vars
SpecOverlap == Init /\ [][NextOverlap]_vars
InitRebuild == StoreInit /\ ShortLogInit /\ HybridIdle /\ BehaviorIdle /\ QueryIdle
SpecRebuild == InitRebuild /\ [][NextRebuild]_vars
SpecBehavior == InitBehavior /\ [][NextBehavior]_vars
SpecEngines == InitEngines /\ [][NextEngines]_vars

\* ------------------------------------------------------------ properties
AllIdle == \A p \in Procs : pc[p] = "idle"
RowsWithKey(rows, key) == {i \in 1..Len(rows) : KeyOf(rows[i]) = key}
Counters(r) == <<r.shown_count, r.click_count, r.purchase_count>>
CountersMatchFeedback ==
    \A i \in 1..Len(recs) :
        Counters(recs[i]) = <<hist[i].shown, hist[i].click, hist[i].purchase>>

\* C1: storing a recommendation again for a key that is already stored
\* leaves exactly one row for the key and leaves shown_count, click_count
\* and purchase_count as they were before the call, whatever their values;
\* a first insert starts with the three counters at 0.
C1_Step ==
    /\ pc[1] = "upd_save" =>
          /\ Len(recs') = Len(recs)
          /\ RowsWithKey(recs', CallKey(1)) = {snap[1].id}
          /\ Counters(recs'[snap[1].id]) = Counters(recs[snap[1].id])
    /\ (pc[1] = "goc_create" /\ recs' # recs) =>
          /\ RowsWithKey(recs', CallKey(1)) = {Len(recs')}
          /\ Counters(recs'[Len(recs')]) = <<0, 0, 0>>
C1_UpsertIdempotent == [][C1_Step]_vars

\* a second store of identical score/rank/explanation/context is about to
\* rewrite a row whose counters are all non-zero
C1_Witness ==
    /\ pc[1] = "upd_save"
    /\ snap[1].score = Head(op[1].todo).score
    /\ snap[1].rank = Head(op[1].todo).rank
    /\ snap[1].explanation = Head(op[1].todo).explanation
    /\ snap[1].context = op[1].context
    /\ recs[snap[1].id].shown_count > 0
    /\ recs[snap[1].id].click_count > 0
    /\ recs[snap[1].id].purchase_count > 0

\* C2: one feedback call and the upserts that rewrite the same row, in any
\* interleaving: once all have completed, the counter includes the
\* increment and the ranking fields are those the last upsert wrote.
C2_NeitherWriteLost ==
    (AllIdle /\ calls.fb = 1) =>
        \A i \in 1..Len(recs) :
            /\ recs[i].shown_count = hist[i].shown
            /\ recs[i].click_count = hist[i].click
            /\ Ranking(recs[i]) = hist[i].ranking

\* C3: k feedback calls on one row, in any interleaving and with no upsert
\* rewriting the row meanwhile, raise its counter by exactly k.
C3_NoLostIncrement ==
    (AllIdle /\ calls.up = 1) =>
        \A i \in 1..Len(recs) :
            /\ recs[i].shown_count = hist[i].shown
            /\ recs[i].click_count = hist[i].click

\* C4: under concurrent upserts there is never more than one row for a key,
\* no call fails, and score, explanation and context of a row are those of
\* one call.
C4_UpsertsSerialized ==
    /\ \A i, j \in 1..Len(recs) : KeyOf(recs[i]) = KeyOf(recs[j]) => i = j
    /\ \A p \in Procs : pc[p] # "failed"
    /\ \A i \in 1..Len(recs) :
          recs[i].score = recs[i].explanation /\ recs[i].score = recs[i].context

\* C5: with one request at a time, every counter equals the number of
\* feedback calls of its kind made on the row; a feedback call changes its
\* own counter by +1 and nothing else of the row; after 3 impressions and
\* 1 click the click-through rate is 100 * 1/3.
C5_Inv ==
    /\ pc[1] = "idle" => CountersMatchFeedback
    /\ \A i \in 1..Len(recs) :
          (hist[i].shown = 3 /\ hist[i].click = 1 /\ pc[1] = "idle") =>
              RatEq(click_through_rate(recs[i]), Rat(100, 3))
C5_Step ==
    pc[1] = "fb_save" =>
        LET i == op[1].rec_id
            own == CounterOf(op[1].kind)
        IN /\ recs'[i][own] = recs[i][own] + 1
           /\ \A f \in DOMAIN recs[i] \ {own} : recs'[i][f] = recs[i][f]
           /\ \A j \in 1..Len(recs) \ {i} : recs'[j] = recs[j]
           /\ Len(recs') = Len(recs)
C5_SequentialFeedback == []C5_Inv /\ [][C5_Step]_vars

\* three impressions and one click have been recorded on a row
C5_Witness ==
    /\ pc[1] = "idle"
    /\ \E i \in 1..Len(recs) :
          /\ hist[i].shown = 3 /\ hist[i].click = 1
          /\ recs[i].shown_count = 3 /\ recs[i].click_count = 1

\* C6: a row with shown_count = 0 reads click_through_rate = 0 and
\* conversion_rate = 0 whatever its other counters are, and neither rate
\* is ever a division by zero.
C6_RatesZeroWhenNotShown ==
    \A i \in 1..Len(recs) :
        /\ click_through_rate(recs[i])[2] # 0
        /\ conversion_rate(recs[i])[2] # 0
        /\ recs[i].shown_count = 0 =>
              /\ click_through_rate(recs[i]) = ZeroRat
              /\ conversion_rate(recs[i]) = ZeroRat

\* a row clicked and purchased before it was ever shown
C6_Witness ==
    \E i \in 1..Len(recs) :
        /\ recs[i].shown_count = 0
        /\ recs[i].click_count > 0
        /\ recs[i].purchase_count > 0

\* C10 (recommendation store): a step of a service bound to a tenant reads
\* and writes only rows and profiles of that tenant.
C10_StoreStep ==
    /\ \A i \in 1..Len(recs) : recs'[i] # recs[i] => recs[i].store = op[1].store
    /\ \A i \in (Len(recs) + 1)..Len(recs') : recs'[i].store = op[1].store
    /\ \A u \in UserPks : profiles'[u] # profiles[u] => UserStore(u) = op[1].store
    /\ (snap'[1] # snap[1] /\ snap'[1] # NoRow) => snap'[1].store = op[1].store
C10_TenantIsolation == [][C10_StoreStep]_vars

\* ------------------------------------------------------------ trending
WindowNames == {Windows[w].name : w \in 1..Len(Windows)}
EntriesOf(table, store, window) ==
    {r \in table : r.store = store /\ r.calculation_window = window}

\* C8: once calculate_trending_products has completed, the stored entries of
\* every (tenant, window) carry exactly the ranks 1..N, no gap and no
\* duplicate, and an entry with a smaller rank has a strictly greater score.
C8_RanksDenseAndDescending ==
    task = NoTask =>
        \A store \in Stores, window \in WindowNames :
            LET rows == EntriesOf(trending, store, window) IN
            /\ {r.rank : r \in rows} = 1..Cardinality(rows)
            /\ \A a, b \in rows : a.rank = b.rank => a = b
            /\ \A a, b \in rows : a.rank < b.rank => a.score > b.score

\* the counts of one product over one window, taken from the event store
CountIn(store, product, since, types) ==
    Cardinality({e \in interactions :
        /\ e.store = store
        /\ e.product = product
        /\ e.created_at >= since
        /\ e.interaction_type \in types})
AllTypes == {e.interaction_type : e \in interactions}

C9_Step ==
    (task # NoTask /\ task' # task) =>
        LET delta == Windows[task.w].delta
            window == Windows[task.w].name
        IN \A k \in 1..Len(written') :
            LET product == written'[k]
                ic == CountIn(task.store, product, tnow - delta, AllTypes)
                pcount == CountIn(task.store, product, tnow - delta, {"purchase"})
                vc == CountIn(task.store, product, tnow - (delta \div 2), AllTypes)
                rows == {r \in trending' :
                            TrendingKey(r) = <<task.store, product, window>>}
            IN /\ Cardinality(rows) = 1
               /\ \A r \in rows :
                    /\ r.score = ic + 5 * pcount + 2 * vc
                    /\ RatEq(r.velocity, IF ic = 0 THEN <<0, 1>> ELSE <<vc, ic>>)
                    /\ 0 <= r.velocity[1]
                    /\ r.velocity[1] <= r.velocity[2]

Proposed(k, product) ==
    /\ ~hin[k].raised
    /\ \E i \in 1..Len(hin[k].recs) : hin[k].recs[i].product = product
ScoreBy(k, product) ==
    IF Proposed(k, product)
    THEN hin[k].recs[CHOOSE i \in 1..Len(hin[k].recs) :
                        hin[k].recs[i].product = product].score
    ELSE ZeroRat
Share(k, product, w) == IF Proposed(k, product) THEN w ELSE 0

\* C7: the combined score of a product is the sum of weight * score over the
\* generators that proposed it divided by the sum of those generators'
\* weights, with weights collaborative 0.40, content 0.35 and popularity
\* 0.25; a product only the popularity generator proposed has exactly
\* popularity's score.
C7_HybridWeightedAverage ==
    hout.done =>
        \A i \in 1..Len(hout.recs) :
            LET product == hout.recs[i].product
                wp == Share(1, product, 25)
                wc == Share(2, product, 40)
                wt == Share(3, product, 35)
                sp == ScoreBy(1, product)
                sc == ScoreBy(2, product)
                st == ScoreBy(3, product)
                \* sp, sc and st share the denominator sp[2] = sc[2] = st[2]
                expected == <<wp * sp[1] + wc * sc[1] + wt * st[1],
                              (wp + wc + wt) * ScoreDen>>
            IN /\ wp + wc + wt > 0
               /\ RatEq(hout.recs[i].score, expected)
               /\ (Proposed(1, product) /\ ~Proposed(2, product)
                     /\ ~Proposed(3, product))
                    => RatEq(hout.recs[i].score, sp)

\* one returned product came from the popularity generator alone, with a
\* positive score, and another from all three with different scores
C7_Witness ==
    /\ hout.done
    /\ \E i, j \in 1..Len(hout.recs) :
        /\ Proposed(1, hout.recs[i].product)
        /\ ~Proposed(2, hout.recs[i].product)
        /\ ~Proposed(3, hout.recs[i].product)
        /\ hout.recs[i].score[1] > 0
        /\ Proposed(1, hout.recs[j].product)
        /\ Proposed(2, hout.recs[j].product)
        /\ Proposed(3, hout.recs[j].product)
        /\ ~RatEq(ScoreBy(1, hout.recs[j].product), ScoreBy(2, hout.recs[j].product))
        /\ ~RatEq(ScoreBy(2, hout.recs[j].product), ScoreBy(3, hout.recs[j].product))

\* -------------------------------------------------------- interactions
\* C11: after every save of an interaction, a new one or a stored one saved
\* again, its stored weight is the table value of its type (purchase 5.0,
\* cart_add 2.0, review 3.0, wishlist_add 1.5, detail_view 0.5, click 0.3,
\* like 1.0, dislike 0.5, view 0.1, every other type 1.0), whatever weight
\* the caller supplied; two interactions of one type have the same weight.
C11_TableWeight(type) ==
    CASE type = "purchase"     -> 50
      [] type = "cart_add"     -> 20
      [] type = "review"       -> 30
      [] type = "wishlist_add" -> 15
      [] type = "detail_view"  -> 5
      [] type = "click"        -> 3
      [] type = "like"         -> 10
      [] type = "dislike"      -> 5
      [] type = "view"         -> 1
      [] OTHER                 -> 10
C11_WeightIsFunctionOfType ==
    /\ \A e \in interactions : e.weight = C11_TableWeight(e.interaction_type)
    /\ \A e, f \in interactions :
          e.interaction_type = f.interaction_type => e.weight = f.weight

\* three saves have been made, and a purchase and a share are stored
C11_Witness ==
    /\ budget = MaxEvents
    /\ \E e, f \in interactions :
          /\ e.interaction_type = "purchase" /\ e.weight = 50
          /\ f.interaction_type = "share" /\ f.weight = 10

\* ----------------------------------------------------------- behaviour
UserRows(user) == {e \in interactions : e.user = user}
TypeCount(user, type) ==
    Cardinality({e \in UserRows(user) : e.interaction_type = type})

C13_CollaborativeEmpty ==
    (/\ eout.engine = "collaborative"
     /\ \/ eout.user_id \in {NoneId, ""}
        \/ \A u \in UserPks :
              (UserStore(u) = eout.store /\ UserExtId(u) = eout.user_id)
                  => ~\E e \in interactions : e.user = u)
        => (~eout.raised /\ eout.recs = <<>>)

\* the id belongs to a user of another store, while the calling store has
\* purchases by two users to draw from
C13_Witness ==
    /\ eout.engine = "collaborative"
    /\ eout.store = "A"
    /\ eout.user_id = "2"
    /\ \E e \in interactions : e.user = 1 /\ e.product = 1
    /\ \E e \in interactions : e.user = 3 /\ e.product = 2
    /\ ~eout.raised
    /\ eout.recs = <<>>

\* C14: the hybrid call raises nothing whatever its generators do, and a
\* generator that raised contributes nothing: every returned product was
\* proposed by a generator that returned, every explanation it carries is
\* that of a generator that returned and proposed it, and the result is
\* empty only when no returning generator proposed anything.
C14_FailingGeneratorsOmitted ==
    hout.done =>
        /\ ~hout.raised
        /\ \A i \in 1..Len(hout.recs) :
              /\ \E k \in 1..Len(hin) : ~hin[k].raised /\ Proposed(k, hout.recs[i].product)
              /\ \A j \in 1..Len(hout.recs[i].explanations) :
                    \E k \in 1..Len(hin) :
                        /\ ~hin[k].raised
                        /\ Proposed(k, hout.recs[i].product)
                        /\ hout.recs[i].explanations[j] = HybridEngines[k]
        /\ hout.recs = <<>>
              => \A k \in 1..Len(hin), product \in HybridProducts : ~Proposed(k, product)

\* two generators raised, the third returned two products, and the call
\* returned both without raising
C14_Witness ==
    /\ hout.done
    /\ hin[2].raised
    /\ ~hin[1].raised
    /\ hin[3].raised
    /\ Len(hout.recs) = 2
    /\ ~hout.raised

\* C15: in every step, under every interleaving of upserts and feedback
\* calls, no counter of a stored recommendation decreases, and a counter
\* changes only in the saving step of a feedback call, never in an upsert's.
C15_CountersMonotone ==
    [][\A i \in 1..Len(recs) :
          /\ recs'[i].shown_count >= recs[i].shown_count
          /\ recs'[i].click_count >= recs[i].click_count
          /\ recs'[i].purchase_count >= recs[i].purchase_count
          /\ Counters(recs'[i]) # Counters(recs[i])
                => \E p \in Procs : pc[p] = "fb_save" /\ pc'[p] # "fb_save"]_vars

\* C16: when a record_impression or record_click on a recommendation that
\* has a user completes, the stored profile of that user holds the sums of
\* the three counters over the user's recommendations, and its two rates are
\* 100 * clicked / shown and 100 * purchased / shown of those sums, 0 when
\* the shown sum is 0.
C16_Step ==
    pc[1] = "profile_save" =>
        LET u == snap[1].user
            shown == SumOver(Len(recs'), u, "shown_count")
            clicked == SumOver(Len(recs'), u, "click_count")
            purchased == SumOver(Len(recs'), u, "purchase_count")
            stored == profiles'[u]
        IN /\ stored.exists
           /\ stored.shown = shown
           /\ stored.clicked = clicked
           /\ stored.purchased = purchased
           /\ RatEq(stored.overall_ctr,
                    IF shown = 0 THEN ZeroRat ELSE Rat(100 * clicked, shown))
           /\ RatEq(stored.overall_conversion_rate,
                    IF shown = 0 THEN ZeroRat ELSE Rat(100 * purchased, shown))
C16_ProfileMatchesTotals == [][C16_Step]_vars

\* C17: a read of the recommendation list returns rows of the caller's
\* store only; a read without active_only returns no row whose expires_at
\* has passed and returns every row written with expires_at = now + 24 h;
\* a read returns a row whose expires_at has passed only when the caller
\* sent active_only=false.
C17_Step ==
    listed' # listed =>
        /\ \A i \in listed'.ids : recs[i].store = listed'.store
        /\ listed'.active_only = Absent =>
              /\ \A i \in listed'.ids :
                    recs[i].expires_at = NoExpiry \/ recs[i].expires_at >= now
              /\ \A i \in 1..Len(recs) :
                    (/\ recs[i].store = listed'.store
                     /\ recs[i].expires_at = now + HoursToExpiry) => i \in listed'.ids
        /\ (\E i \in listed'.ids :
                recs[i].expires_at # NoExpiry /\ recs[i].expires_at < now)
              => Lower(listed'.active_only) = "false"
C17_DefaultReadExcludesExpired == [][C17_Step]_vars

\* C18: a run of cleanup_old_recommendations deletes exactly the rows
\* created more than 30 days ago or whose expires_at has passed, and leaves
\* every other row as it was, a row without expires_at included.
C18_Step ==
    calls'.cleanups # calls.cleanups =>
        /\ Len(recs') = Len(recs)
        /\ \A i \in 1..Len(recs) :
              recs[i] # NoRow =>
                 IF \/ now - recs[i].created_at > CleanupAfter
                    \/ (recs[i].expires_at # NoExpiry /\ now > recs[i].expires_at)
                 THEN recs'[i] = NoRow
                 ELSE recs'[i] = recs[i]
        /\ profiles' = profiles
C18_CleanupDeletesExactlyStale == [][C18_Step]_vars

\* the task has run, a row has been deleted, and a row without expires_at
\* that was created earlier is still stored
C18_Witness ==
    /\ calls.cleanups > 0
    /\ \E i \in 1..Len(recs) : recs[i] = NoRow
    /\ \E i \in 1..Len(recs) :
          /\ recs[i] # NoRow
          /\ recs[i].expires_at = NoExpiry
          /\ recs[i].created_at < now

\* C19: every score returned by the popularity, collaborative, content and
\* hybrid generators, and every similarity_score stored as a SimilarProduct,
\* is at least 0 and at most 1.
InUnitInterval(r) == r[2] > 0 /\ 0 <= r[1] /\ r[1] <= r[2]
C19_ScoresInUnitInterval ==
    /\ \A i \in 1..Len(eout.recs) : InUnitInterval(eout.recs[i].score)
    /\ \A r \in similar : InUnitInterval(r.similarity_score)

\* similar products are stored, and the hybrid generator has returned a
\* product whose collaborative count of 3 purchases exceeds the scale of 10
C19_Witness ==
    /\ similar # {}
    /\ eout.engine = "hybrid"
    /\ eout.user_id = "1"
    /\ Cardinality({e \in interactions :
                      e.user = 3 /\ e.product = 2 /\ e.interaction_type = "purchase"}) >= 3
    /\ \E i \in 1..Len(eout.recs) :
          eout.recs[i].product = 2 /\ eout.recs[i].score[1] > 0

\* C20: the list the hybrid generator returns has at most max_results
\* entries, no product twice, scores that never increase along the list,
\* and rank k on its k-th entry.
C20_HybridListShape ==
    hout.done =>
        /\ Len(hout.recs) <= hout.max_results
        /\ \A i, j \in 1..Len(hout.recs) :
              /\ hout.recs[i].product = hout.recs[j].product => i = j
              /\ i < j => ~RatLess(hout.recs[i].score, hout.recs[j].score)
        /\ \A k \in 1..Len(hout.recs) : hout.recs[k].rank = k

\* two products were proposed with different combined scores, the one
\* proposed last has the larger one, and only one entry was asked for
C20_Witness ==
    /\ hout.done
    /\ hout.max_results = 1
    /\ Len(hout.recs) = 1
    /\ hout.recs[1].product = 2
    /\ ~hin[1].raised
    /\ Len(hin[1].recs) = 2
    /\ hin[1].recs[1].product = 1
    /\ hin[1].recs[1].score[1] > 0
    /\ Proposed(2, 2)

\* C21: the list a single named generator (popularity, collaborative or
\* content-based) returns, which get_recommendations stores as it is, carries
\* the ranks 1..N in order, and a smaller rank never has a smaller score.
C21_SingleEngineRanks ==
    (eout.engine \in {"popularity", "collaborative", "content"} /\ ~eout.raised) =>
        /\ \A k \in 1..Len(eout.recs) : eout.recs[k].rank = k
        /\ \A i, j \in 1..Len(eout.recs) :
              eout.recs[i].rank < eout.recs[j].rank
                  => ~RatLess(eout.recs[i].score, eout.recs[j].score)

\* C22: when a run of calculate_trending_products has written a window,
\* every stored entry of that (tenant, window) belongs to a product of the
\* run's result for the window: no entry of an earlier run survives for a
\* product that is no longer in the result.
C22_Step ==
    (task # NoTask /\ task' # task) =>
        \A r \in EntriesOf(trending', task.store, Windows[task.w].name) :
            \E k \in 1..Len(written') : written'[k] = r.product
C22_TrendingRecomputedWholesale == [][C22_Step]_vars

\* A store whose window holds more products than the task keeps: product
\* 100 + i of store A has i + 1 views (i in 1..TrendingLimit), and product 100
\* has a single interaction of the given type; all of them are recent.
BusyLog(type) ==
    UNION {{LogRow(1000 * i + j, NoUser, "A", 100 + i, "view", DefaultValue) :
              j \in 1..(i + 1)} : i \in 1..TrendingLimit}
      \cup {LogRow(100, NoUser, "A", 100, type, DefaultValue)}

BusyInit ==
    /\ \E type \in {"view", "purchase"},
          few \in SUBSET {e \in EventCatalogue : e.product = 1} :
            interactions = BusyLog(type) \cup few
    /\ tnow = 0
    /\ trending = {}
    /\ task = NoTask
    /\ written = <<>>
    /\ rewritten = {}
    /\ budget = 0

InitBusy == StoreInit /\ BusyInit /\ HybridIdle /\ BehaviorIdle /\ QueryIdle

NextBusy ==
    \/ \E d \in Jumps : AdvanceClock(d)
    \/ StartTrending("A")
    \/ TrendingWindow

SpecBusy == InitBusy /\ [][NextBusy]_vars

\* the trending score of lines 93-97 of a product over a window, counted in
\* the event store
ScoreIn(store, product, delta) ==
    CountIn(store, product, tnow - delta, AllTypes)
      + PurchaseBoost * CountIn(store, product, tnow - delta, {"purchase"})
      + VelocityBoost * CountIn(store, product, tnow - (delta \div 2), AllTypes)

C23_Step ==
    (task # NoTask /\ task' # task) =>
        LET delta == Windows[task.w].delta
            kept == {written'[k] : k \in 1..Len(written')}
            all == {e.product : e \in WindowRows(task.store, tnow - delta)}
        IN /\ Cardinality(kept) <= TrendingLimit
           /\ \A out \in all \ kept, in \in kept :
                 ScoreIn(task.store, out, delta) <= ScoreIn(task.store, in, delta)

\* C23: for each window, the products calculate_trending_products writes are
\* the (at most 50) products with the highest trending score
\* interaction_count + 5 * purchase_count + 2 * velocity_count of the window:
\* no product left out has a strictly higher score than a product kept.
C23_TopByTrendingScore == [][C23_Step]_vars

\* 0.7 + 0.3 * (1 - |ps - pt| / ps), clamped to 1.0, for prices ps > 0 and pt
PriceFormula(ps, pt) ==
    LET diff == IF ps > pt THEN ps - pt ELSE pt - ps
        score == Rat(7 * ps + 3 * (ps - diff), 10 * ps)
    IN IF RatLess(Rat(1, 1), score) THEN Rat(1, 1) ELSE score

\* C24: after precompute_similar_products has run for a tenant, every source
\* product s and same-category target t of the tenant with known prices has
\* a stored row (tenant, s, t) whose similarity_score is
\* 0.7 + 0.3 * (1 - |price_s - price_t| / price_s) clamped to 1.0, the value
\* get_similar_products stores for the key as well; no row has source = target.
C24_PrecomputedMatchesFormula ==
    /\ \A r \in similar : r.source_product # r.target_product
    /\ (eout.engine = "precompute_similar_products" /\ eout.store \in Stores) =>
          \A s, t \in ProductsOf(eout.store) :
             (/\ s # t
              /\ ProductCategory(s) = ProductCategory(t)
              /\ Truthy(prices[s]) /\ Truthy(prices[t])
              /\ prices[s][1] > 0)
             => \E r \in similar :
                  /\ r.store = eout.store
                  /\ r.source_product = s
                  /\ r.target_product = t
                  /\ RatEq(r.similarity_score, PriceFormula(prices[s][1], prices[t][1]))

C25_Step ==
    \A u \in UserPks : bprofiles'[u] # bprofiles[u] =>
        /\ bprofiles'[u] = BehaviorProfile(u, NoBehaviorProfile)
        /\ ({e \in UserRows(u) : e.interaction_type = "purchase"} = {}
              => /\ bprofiles'[u].price_preference = <<>>
                 /\ bprofiles'[u].avg_order_value = 0)

TablesUnchanged == UNCHANGED <<bprofiles, profiles, recs, trending, similar>>

C26_Step ==
    /\ UpdateUserBehaviorProfile(UnknownUserPk) => TablesUnchanged
    /\ \A p \in Procs :
          /\ (pc[p] = "idle" /\ pc'[p] = "fb_get") => TablesUnchanged
          /\ (pc[p] = "fb_get" /\ pc'[p] # "fb_get" /\ Visible(p) = {})
                => pc'[p] = "idle" /\ TablesUnchanged
    /\ StartTrending("unknown") => task' = NoTask /\ TablesUnchanged
    /\ (eout = NoCall /\ eout'.engine = "precompute_similar_products"
          /\ eout'.store \notin Stores)
          => ~eout'.raised /\ TablesUnchanged

\* C26: update_user_behavior_profile for a user that does not exist,
\* record_impression and record_click for a recommendation id that does not
\* exist, and calculate_trending_products and precompute_similar_products
\* for a store that does not exist complete without raising and leave every
\* stored profile, Recommendation, TrendingEntry and SimilarProduct as it
\* was; no profile row is created.
C26_NotFoundChangesNothing == [][C26_Step]_vars

\* precompute_similar_products has returned for a store that does not exist
\* and a feedback call is about to look up a recommendation id that does not
\* exist, while a Recommendation, a behaviour profile and trending entries
\* are stored
C26_Witness ==
    /\ eout.engine = "precompute_similar_products"
    /\ eout.store \notin Stores
    /\ ~eout.raised
    /\ pc[1] = "fb_get"
    /\ Visible(1) = {}
    /\ Len(recs) > 0
    /\ bprofiles[1].exists
    /\ trending # {}

\* C27: neither the collaborative generator nor the content-based generator
\* in user mode returns a product the target user has an interaction with,
\* whatever the interactions of the user and of the neighbours are, those
\* without a product included.
C27_NoInteractedProduct ==
    (/\ eout.engine \in {"collaborative", "content"}
     /\ ~Falsy(eout.user_id)
     /\ ~eout.raised) =>
        \A u \in UsersFound(eout.store, eout.user_id), i \in 1..Len(eout.recs) :
            ~\E e \in interactions : e.user = u /\ e.product = eout.recs[i].product

\* user 1 has viewed product 1 and searched without a product, a neighbour
\* who purchased product 1 has purchased product 2 and searched without a
\* product as well, and the collaborative generator returned product 2
C27_Witness ==
    /\ eout.engine = "collaborative"
    /\ eout.user_id = "1"
    /\ \E e \in interactions : e.user = 1 /\ e.product = 1
    /\ \E e \in interactions : e.user = 1 /\ e.product = NoProduct
    /\ \E e \in interactions : e.user = 3 /\ e.product = NoProduct
    /\ \E i \in 1..Len(eout.recs) : eout.recs[i].product = 2

\* C28: a content-based call made for a source product (no user) returns
\* products of the same tenant and category other than the source; when the
\* source has a price p they have a price within [0.5 p, 1.5 p]; when it has
\* none, every other product of the category is eligible whatever its price
\* or the lack of one, so each of them is returned unless max_results cuts
\* the list; with neither a user nor a source product the list is empty.
C28_SimilarCandidates ==
    (eout.engine = "content" /\ Falsy(eout.user_id)) =>
        IF eout.context = NoContext THEN ~eout.raised /\ eout.recs = <<>>
        ELSE LET source == ToProductPk(eout.context)
                 others == {t \in CatalogueOf(eout.store) \ {source} :
                               ProductCategory(t) = ProductCategory(source)}
                 returned == {eout.recs[i].product : i \in 1..Len(eout.recs)}
             IN source \in CatalogueOf(eout.store) =>
                  /\ ~eout.raised
                  /\ returned \subseteq others
                  /\ prices[source] # NoPrice =>
                        \A t \in returned :
                            /\ prices[t] # NoPrice
                            /\ 2 * prices[t][1] >= prices[source][1]
                            /\ 2 * prices[t][1] <= 3 * prices[source][1]
                  /\ prices[source] = NoPrice =>
                        \/ others \subseteq returned
                        \/ Len(eout.recs) = eout.max_results

C30_Step ==
    \A i \in (Len(recs) + 1)..Len(recs') :
        LET r == recs'[i] IN
        /\ r.store = op[1].store
        /\ ProductStore(r.product) = r.store
        /\ IF Falsy(op[1].user_id) THEN r.user = NoUser
           ELSE /\ r.user \in UsersFound(r.store, op[1].user_id)
                /\ UserStore(r.user) = r.store

\* C30: a Recommendation that get_recommendations(tenant, user_id = u) stores
\* references the user of the tenant whose user_id is u, the one the
\* generators look up, and that user and the product belong to the
\* Recommendation's tenant; one stored for an anonymous session references
\* no user.
C30_StoredUserIsTheTenantsUser == [][C30_Step]_vars

====
